---------------------------- MODULE Spec2Model ----------------------------
(***************************************************************************)
(* A model of the thesis parser: the section range resolver that walks the *)
(* parsed table of contents (parser_pdf.py), the orchestration of the TOC  *)
(* path and the heading-scan path (get_pages_for_parsing, parse), and the  *)
(* second-stage normalizer and bucketizer (partition_preprocess.py).       *)
(*                                                                         *)
(* Python indexes sequences from 0, TLA+ from 1: an index k of the source  *)
(* is the index k + 1 here.  Python's None is the empty sequence << >> and *)
(* a present value v is << v >>.  Titles are written in Latin letters      *)
(* because the tools read ASCII only; each title stands for the Russian    *)
(* title named beside it.                                                  *)
(***************************************************************************)
EXTENDS Integers, Sequences, FiniteSets, TLC

VARIABLES
    \* ---- section range resolver (parser_pdf.py, get_*_range) ----
    entries,        \* the TOC: a sequence of [title, page]
    intro_range,    \* what get_introduction_range(entries) gave
    review_range,   \* what get_review_range(entries) gave
    \* ---- get_pages_for_parsing and parse (parser_pdf.py) ----
    doc,            \* the opened document
    pc,             \* where parse / get_pages_for_parsing stands
    calls,          \* the lookups made so far, in order
    error,          \* the exception that reached the caller of parse
    flags,          \* [content, review]: flag_content, flag_review
    intro_idx,      \* [beg, end]: beg_intro, end_intro (page indices)
    review_idx,     \* [beg, end]: beg_review, end_review (page indices)
    page_lists,     \* [intro, review]: intro_pages, review_pages
    parsed,         \* [intro, review]: the paragraphs parse returns
    \* ---- split_paragraphs (partition_preprocess.py) ----
    sentences,      \* the sentences given to split_paragraphs
    next_sentence,  \* position of the sentence the for loop takes next
    paragraphs,     \* the paragraphs appended so far
    buf,            \* the pending buffer
    buf_nospace,    \* its count of non-space characters
    split_pc,       \* "idle", "loop" or "done"
    \* ---- the normalizer (clean_raw_text, remove_artifacts) ----
    text,           \* the raw text first given to the normalizer
    txt,            \* the text as the normalizer has it now
    outputs,        \* what each completed run of the normalizer returned
    norm_pc,        \* "idle", "raw", "cleaned" or "normalized"
    \* ---- the block loop of process_file (partition_preprocess.py) ----
    blocks,         \* the raw blocks of one section
    block_j,        \* j, the position of the block the loop takes next
    all_sents,      \* the sentence list built so far
    sect_pc,        \* "idle", "loop" or "done"
    \* ---- handle_lists (partition_preprocess.py) ----
    hl_sentences,   \* the sentences given to handle_lists
    hl_result,      \* what handle_lists returned
    hl_pc,          \* "idle", "called" or "done"
    \* ---- main and process_file (partition_preprocess.py) ----
    files,          \* the files of the input folder, in os.listdir order
    uni,            \* the --uni argument
    file_k,         \* position of the file the loop of main takes next
    file_pc,        \* "idle", "main", "section", "split", "write" or "done"
    sec_idx,        \* idx, the position of the section process_file is at
    out,            \* [intro, review]: the sections stored in out so far
    out_files,      \* the output files written: [file, out]
    log,            \* the lines main printed: [file, line]
    \* ---- get_real_content_page (parser_pdf.py) ----
    real_content_page,  \* what get_real_content_page returned
    num_pc,         \* "idle", "called" or "done"
    \* ---- extract_paragraphs_from_pages (parser_pdf.py) ----
    pdf_pages,      \* the pages page_numbers names, as fitz gives them
    page_k,         \* position of the page the page loop takes next
    prelim_blocks,  \* the blocks of this page the first filter kept
    filtered_blocks,    \* those of them the caption filter kept
    blk_k,          \* position of the block the reassembly loop takes next
    temp_para,      \* the pending paragraph
    page_paragraphs,    \* the paragraphs completed on this page
    carryover,      \* the pending paragraph carried between pages
    prev_ended_with_hyphen, \* the previous kept block ended with a hyphen
    pdf_paragraphs, \* paragraphs, the list that is returned
    ex_pc,           \* "idle", "page", "blocks" or "done"
    \* ---- find_section_range (parser_pdf.py) ----
    scan_doc,        \* the document find_section_range is given
    scan_title,      \* section_title
    scan_range,      \* what find_section_range returned or raised
    scan_pc,          \* "idle", "called" or "done"
    \* ---- save_json (parser_web.py) and process_save (parser_hse.py) ----
    wr_site,         \* "web" or "hse"
    wr_exists,       \* the .json file of the document is there already
    wr_parse,        \* what parse returns or raises
    wr_file,         \* the record written: None or Some(record)
    wr_pc,            \* "idle", "called" or "done"
    \* ---- processing_block (parser_pdf.py) ----
    toc_text,        \* the text of the block of the TOC page
    toc_result,      \* what processing_block returned or raised
    toc_pc,           \* "idle", "called" or "done"
    \* ---- get_real_page (parser_pdf.py) ----
    rp_block,        \* the block of the page: y0, y1 and its line of text
    rp_result,       \* what get_real_page returned or raised
    rp_pc            \* "idle", "called" or "done"

tocVars == <<entries, intro_range, review_range>>

splitVars ==
    <<sentences, next_sentence, paragraphs, buf, buf_nospace, split_pc>>

pagesVars ==
    <<doc, pc, calls, error, flags, intro_idx, review_idx, page_lists,
      parsed>>

normVars == <<text, txt, outputs, norm_pc>>

sectVars == <<blocks, block_j, all_sents, sect_pc>>

listVars == <<hl_sentences, hl_result, hl_pc>>

batchVars == <<files, uni, file_k, file_pc, sec_idx, out, out_files, log>>

numVars == <<real_content_page, num_pc>>

extractVars ==
    <<pdf_pages, page_k, prelim_blocks, filtered_blocks, blk_k, temp_para,
      page_paragraphs, carryover, prev_ended_with_hyphen, pdf_paragraphs,
      ex_pc>>

scanVars == <<scan_doc, scan_title, scan_range, scan_pc>>

writeVars == <<wr_site, wr_exists, wr_parse, wr_file, wr_pc>>

blockVars == <<toc_text, toc_result, toc_pc>>

realVars == <<rp_block, rp_result, rp_pc>>

vars ==
    <<tocVars, pagesVars, splitVars, normVars, sectVars, listVars,
      batchVars, numVars, extractVars, scanVars, writeVars, blockVars, realVars>>

\* what the actions of one part leave alone
notToc ==
    <<pagesVars, splitVars, normVars, sectVars, listVars, batchVars,
      numVars, extractVars, scanVars, writeVars, blockVars, realVars>>
notPages ==
    <<splitVars, normVars, sectVars, listVars, batchVars,
      numVars, extractVars, scanVars, writeVars, blockVars, realVars>>
notSplit ==
    <<tocVars, pagesVars, normVars, sectVars, listVars, batchVars,
      numVars, extractVars, scanVars, writeVars, blockVars, realVars>>
notNorm ==
    <<tocVars, pagesVars, splitVars, sectVars, listVars, batchVars,
      numVars, extractVars, scanVars, writeVars, blockVars, realVars>>
notSect ==
    <<tocVars, pagesVars, splitVars, normVars, listVars, batchVars,
      numVars, extractVars, scanVars, writeVars, blockVars, realVars>>
notBatch ==
    <<tocVars, pagesVars, splitVars, normVars, sectVars, listVars,
      numVars, extractVars, scanVars, writeVars, blockVars, realVars>>
notLists ==
    <<tocVars, pagesVars, splitVars, normVars, sectVars, batchVars,
      numVars, extractVars, scanVars, writeVars, blockVars, realVars>>
notExtract ==
    <<tocVars, pagesVars, splitVars, normVars, sectVars, listVars,
      batchVars, numVars, scanVars, writeVars, blockVars, realVars>>
notBatchSplit ==
    <<tocVars, pagesVars, normVars, sectVars, listVars,
      numVars, extractVars, scanVars, writeVars, blockVars, realVars>>
notScan ==
    <<tocVars, pagesVars, splitVars, normVars, sectVars, listVars,
      batchVars, numVars, extractVars, writeVars, blockVars, realVars>>
notNumbers ==
    <<tocVars, pagesVars, splitVars, normVars, sectVars, listVars,
      batchVars, extractVars, scanVars, writeVars, blockVars, realVars>>
notBlock ==
    <<tocVars, pagesVars, splitVars, normVars, sectVars, listVars,
      batchVars, numVars, extractVars, scanVars, writeVars, realVars>>
notWrite ==
    <<tocVars, pagesVars, splitVars, normVars, sectVars, listVars,
      batchVars, numVars, extractVars, scanVars, blockVars, realVars>>
notReal ==
    <<tocVars, pagesVars, splitVars, normVars, sectVars, listVars,
      batchVars, numVars, extractVars, scanVars, writeVars, blockVars>>

None == << >>
Some(v) == << v >>
IsNone(o) == o = << >>
Val(o) == o[1]

-----------------------------------------------------------------------------
(* Bounds of the model.                                                    *)

MaxEntries == 4

\* pages of a document given to parse
NumPages == 5

\* sentences given to split_paragraphs
MaxSentences == 3

-----------------------------------------------------------------------------
(* TOC titles.  A title is one of a few representative strings; what the   *)
(* code asks of a title is which keyword lists it matches.                 *)
(*   "Vvedenie"           "Введение"            (introduction)             *)
(*   "Obzor literatury"   "Обзор литературы"    (literature review)        *)
(*   "Spisok literatury"  "Список литературы"   (bibliography)             *)
(*   "Postanovka zadachi" "Постановка задачи"   (goal / task statement)    *)
(*   "2.1 Metody"         "2.1 Методы"          (a nested chapter)         *)
(*   "Zaklyuchenie"       "Заключение"          (conclusion)               *)

Titles ==
    {"Vvedenie", "Obzor literatury", "Spisok literatury",
     "Postanovka zadachi", "2.1 Metody", "Zaklyuchenie"}

\* printed page numbers that a TOC line may carry
PageNumbers == {3, 5, 20}

\* any(kw in title.lower() for kw in intro_keywords)
intro_keywords(title) == title \in {"Vvedenie"}

\* any(kw in title.lower() for kw in review_keywords)
review_keywords(title) == title \in {"Obzor literatury", "Spisok literatury"}

\* any(kw in title.lower() for kw in not_review_keywords)
not_review_keywords(title) == title \in {"Spisok literatury"}

\* any(kw in title.lower() for kw in fallback_keywords)
fallback_keywords(title) == title \in {"Postanovka zadachi"}

\* ignore_pattern.match(title): r'^\s*\d+\.\d'
ignore_pattern(title) == title \in {"2.1 Metody"}

TocEntry == [title : Titles, page : PageNumbers]

BoundedEntries == UNION {[1..n -> TocEntry] : n \in 0..MaxEntries}

-----------------------------------------------------------------------------
(* get_introduction_range                                                  *)

IntroEnd_NextPage(es, i) ==
    IF i + 1 <= Len(es) THEN Some(es[i + 1].page) ELSE None

\* end_page: the page of the next entry minus 1, None after the last entry
IntroEnd(es, i) ==
    IF i + 1 <= Len(es) THEN Some(es[i + 1].page - 1) ELSE None

RECURSIVE IntroScan(_, _)
\* the for loop of get_introduction_range from (1-based) index i on
IntroScan(es, i) ==
    IF i > Len(es)
    THEN [status |-> "error", error |-> "intro not found"]
    ELSE IF intro_keywords(es[i].title)
         THEN IF es[i].page >= 10
              THEN [status |-> "error", error |-> "intro page >= 10"]
              ELSE [status   |-> "ok",
                    index    |-> i,
                    page     |-> es[i].page,
                    end_page |-> IntroEnd(es, i),
                    title    |-> es[i].title]
         ELSE IntroScan(es, i + 1)

get_introduction_range(es) == IntroScan(es, 1)

-----------------------------------------------------------------------------
(* get_review_range                                                        *)

RECURSIVE NextSection(_, _)
\* The three `while True` loops that look for the right border: from index
\* k on, skip nested chapters; 0 when the entries run out (the `break`).
NextSection(es, k) ==
    IF k > Len(es) THEN 0
    ELSE IF ignore_pattern(es[k].title) THEN NextSection(es, k + 1)
    ELSE k

ReviewEnd_NoMinusOne(page, next_page) ==
    IF next_page < page THEN page ELSE next_page

\* end_page of the primary branch: next_page - 1, not below page
ReviewEnd(page, next_page) ==
    LET end_page == next_page - 1
    IN  IF end_page < page THEN page ELSE end_page

\* next_page - 1 with no correction
FallbackEnd_MinusOne(next_page) == next_page - 1

\* end_page of both fallback branches: next_page - 1, then
\* `if end_page < next_page: end_page = next_page`
FallbackEnd(next_page) ==
    LET end_page == next_page - 1
    IN  IF end_page < next_page THEN next_page ELSE end_page

GoalSection_Itself(j) == j

\* title_new, page_new of the goal branch: entries[j + 1]
GoalSection(j) == j + 1

RECURSIVE FallbackScan(_, _)
\* the second for loop of get_review_range from index j on
FallbackScan(es, j) ==
    IF j > Len(es)
    THEN [status |-> "error", error |-> "review not found"]
    ELSE IF ignore_pattern(es[j].title) THEN FallbackScan(es, j + 1)
    ELSE IF fallback_keywords(es[j].title)
         THEN LET n == NextSection(es, j + 2)
              IN  IF n # 0
                  THEN [status   |-> "ok",
                        title    |-> es[GoalSection(j)].title,
                        page     |-> es[GoalSection(j)].page,
                        end_page |-> Some(FallbackEnd(es[n].page))]
                  ELSE FallbackScan(es, j + 1)
         ELSE LET n == NextSection(es, j + 1)
              IN  IF n # 0
                  THEN [status   |-> "ok",
                        title    |-> es[j].title,
                        page     |-> es[j].page,
                        end_page |-> Some(FallbackEnd(es[n].page))]
                  ELSE FallbackScan(es, j + 1)

RECURSIVE ReviewScan(_, _, _)
\* the first for loop of get_review_range from index j on; when it ends
\* without a return the fallback loop starts again from intro_index + 1
ReviewScan(es, intro_index, j) ==
    IF j > Len(es) THEN FallbackScan(es, intro_index + 1)
    ELSE IF ignore_pattern(es[j].title) THEN ReviewScan(es, intro_index, j + 1)
    ELSE IF review_keywords(es[j].title) /\ ~not_review_keywords(es[j].title)
         THEN LET n == NextSection(es, j + 1)
              IN  IF n # 0
                  THEN [status   |-> "ok",
                        title    |-> "obzor",
                        page     |-> es[j].page,
                        end_page |-> Some(ReviewEnd(es[j].page, es[n].page))]
                  ELSE ReviewScan(es, intro_index, j + 1)
         ELSE ReviewScan(es, intro_index, j + 1)

get_review_range(es) ==
    LET intro == get_introduction_range(es)
    IN  IF intro.status = "error" THEN intro
        ELSE ReviewScan(es, intro.index, intro.index + 1)

-----------------------------------------------------------------------------
(* The resolver as a state machine: a TOC is given, then the two lookups   *)
(* are made in the order of get_pages_for_parsing.                         *)

NotCalled == [status |-> "not called"]

\* no document is being parsed
NoParse ==
    /\ doc = None
    /\ pc = "idle"
    /\ calls = << >>
    /\ error = None
    /\ flags = [content |-> TRUE, review |-> TRUE]
    /\ intro_idx = [beg |-> None, end |-> None]
    /\ review_idx = [beg |-> None, end |-> None]
    /\ page_lists = [intro |-> None, review |-> None]
    /\ parsed = [intro |-> None, review |-> None]

\* split_paragraphs is not running
NoSplit ==
    /\ sentences = << >>
    /\ next_sentence = 0
    /\ paragraphs = << >>
    /\ buf = << >>
    /\ buf_nospace = 0
    /\ split_pc = "idle"

\* the normalizer is not running
NoNorm ==
    /\ text = << >>
    /\ txt = << >>
    /\ outputs = << >>
    /\ norm_pc = "idle"

\* no section is being processed
NoSection ==
    /\ blocks = << >>
    /\ block_j = 0
    /\ all_sents = << >>
    /\ sect_pc = "idle"

\* handle_lists (partition_preprocess.py): not running
NoLists ==
    /\ hl_sentences = << >>
    /\ hl_result = << >>
    /\ hl_pc = "idle"

\* main and process_file (partition_preprocess.py): not running
NoBatch ==
    /\ files = << >>
    /\ uni = "spbu"
    /\ file_k = 0
    /\ file_pc = "idle"
    /\ sec_idx = 0
    /\ out = [intro |-> << >>, review |-> << >>]
    /\ out_files = << >>
    /\ log = << >>

\* get_real_content_page (parser_pdf.py): not running
NoNumbers ==
    /\ real_content_page = << >>
    /\ num_pc = "idle"

\* extract_paragraphs_from_pages (parser_pdf.py): not running
NoExtract ==
    /\ pdf_pages = << >>
    /\ page_k = 0
    /\ prelim_blocks = << >>
    /\ filtered_blocks = << >>
    /\ blk_k = 0
    /\ temp_para = << >>
    /\ page_paragraphs = << >>
    /\ carryover = << >>
    /\ prev_ended_with_hyphen = FALSE
    /\ pdf_paragraphs = << >>
    /\ ex_pc = "idle"

\* find_section_range (parser_pdf.py): not running
NoScan ==
    /\ scan_doc = << >>
    /\ scan_title = "none"
    /\ scan_range = << >>
    /\ scan_pc = "idle"

\* save_json (parser_web.py) and process_save (parser_hse.py): not running
NoWrite ==
    /\ wr_site = "web"
    /\ wr_exists = FALSE
    /\ wr_parse = << >>
    /\ wr_file = << >>
    /\ wr_pc = "idle"

\* processing_block (parser_pdf.py): not running
NoBlock ==
    /\ toc_text = << >>
    /\ toc_result = << >>
    /\ toc_pc = "idle"

\* get_real_page (parser_pdf.py): not running
NoReal ==
    /\ rp_block = << >>
    /\ rp_result = << >>
    /\ rp_pc = "idle"

InitToc ==
    /\ entries \in BoundedEntries
    /\ intro_range = NotCalled
    /\ review_range = NotCalled
    /\ NoParse
    /\ NoSplit
    /\ NoNorm
    /\ NoSection
    /\ NoLists
    /\ NoBatch
    /\ NoNumbers
    /\ NoExtract
    /\ NoScan
    /\ NoWrite
    /\ NoBlock
    /\ NoReal

GetIntroductionRange ==
    /\ intro_range = NotCalled
    /\ pc = "idle"
    /\ intro_range' = get_introduction_range(entries)
    /\ UNCHANGED <<entries, review_range, notToc>>

GetReviewRange ==
    /\ intro_range # NotCalled
    /\ review_range = NotCalled
    /\ pc = "idle"
    /\ review_range' = get_review_range(entries)
    /\ UNCHANGED <<entries, intro_range, notToc>>

NextToc == GetIntroductionRange \/ GetReviewRange

SpecToc == InitToc /\ [][NextToc]_vars

-----------------------------------------------------------------------------
(* Claims about the section range resolver, checked under SpecToc.         *)

Example1 ==
    << [title |-> "Vvedenie", page |-> 3],
       [title |-> "Obzor literatury", page |-> 5],
       [title |-> "Zaklyuchenie", page |-> 20] >>

\* C1: for the TOC ("Введение", 3), ("Обзор литературы", 5),
\* ("Заключение", 20) get_introduction_range gives the printed range [3, 4]
\* and get_review_range gives the printed range [5, 19].
C1_Example1Ranges ==
    entries = Example1 =>
        /\ intro_range # NotCalled =>
              /\ intro_range.status = "ok"
              /\ intro_range.page = 3
              /\ intro_range.end_page = Some(4)
        /\ review_range # NotCalled =>
              /\ review_range.status = "ok"
              /\ review_range.page = 5
              /\ review_range.end_page = Some(19)

C1_Witness ==
    /\ entries = Example1
    /\ intro_range # NotCalled
    /\ review_range # NotCalled

\* a returned range with a resolved end has start <= end
RangeOrdered(r) ==
    (r.status = "ok" /\ ~IsNone(r.end_page)) => r.page <= Val(r.end_page)

\* C2: for every TOC, every range returned by get_introduction_range and by
\* get_review_range satisfies start page <= end page whenever the end page
\* is resolved.
C2_StartLeEnd ==
    /\ RangeOrdered(intro_range)
    /\ RangeOrdered(review_range)

\* C3: get_review_range raises its not-found error only when no entry
\* follows the Introduction entry; whenever at least one entry follows the
\* Introduction, a Review range is returned.
C3_ReviewFoundWhenEntriesFollow ==
    (/\ review_range # NotCalled
     /\ intro_range.status = "ok"
     /\ intro_range.index < Len(entries))
        => review_range.status = "ok"

\* the entries after the Introduction that are not nested chapters
TopLevelAfterIntro(es, intro_index) ==
    {j \in (intro_index + 1)..Len(es) : ~ignore_pattern(es[j].title)}

IsReviewTitle(t) == review_keywords(t) /\ ~not_review_keywords(t)

\* no post-Introduction top-level entry matches the review keywords
NoReviewEntry(es, intro_index) ==
    \A j \in TopLevelAfterIntro(es, intro_index) : ~IsReviewTitle(es[j].title)

GoalEntries(es, intro_index) ==
    {j \in TopLevelAfterIntro(es, intro_index) : fallback_keywords(es[j].title)}

SetMin(S) == CHOOSE x \in S : \A y \in S : x <= y

\* the range is the entry es[k], returned verbatim
Returns(r, es, k) ==
    /\ r.status = "ok"
    /\ k <= Len(es)
    /\ r.title = es[k].title
    /\ r.page = es[k].page

\* C4 as stated: with no review-keyword entry, if some post-Introduction
\* top-level entry contains a goal/task keyword the entry immediately after
\* that goal entry is returned; the first post-Introduction top-level entry
\* is returned verbatim only when no goal/task entry exists after the
\* Introduction.
C4_GoalEntryAnywhereDecides ==
    (/\ review_range # NotCalled
     /\ review_range.status = "ok"
     /\ intro_range.status = "ok"
     /\ NoReviewEntry(entries, intro_range.index))
        => LET goals == GoalEntries(entries, intro_range.index)
               first == SetMin(TopLevelAfterIntro(entries, intro_range.index))
           IN  IF goals # {}
               THEN \E g \in goals : Returns(review_range, entries, g + 1)
               ELSE Returns(review_range, entries, first)

\* a later top-level entry exists to bound the range decided at entry j
HasRightBorder(es, j) ==
    \E m \in (IF fallback_keywords(es[j].title) THEN j + 2 ELSE j + 1)..Len(es) :
        ~ignore_pattern(es[m].title)

\* C4 amended: with no review-keyword entry, the fallback decides at the
\* first post-Introduction top-level entry that has a later top-level entry
\* to bound the range: a goal/task entry gives the entry immediately after
\* it, any other entry is returned verbatim, also when a goal/task entry
\* exists later in the TOC.
C4_FirstDecidingEntry ==
    (/\ review_range # NotCalled
     /\ review_range.status = "ok"
     /\ intro_range.status = "ok"
     /\ NoReviewEntry(entries, intro_range.index))
        => LET deciding == {j \in TopLevelAfterIntro(entries, intro_range.index) :
                               HasRightBorder(entries, j)}
           IN  /\ deciding # {}
               /\ LET j == SetMin(deciding)
                  IN  IF fallback_keywords(entries[j].title)
                      THEN Returns(review_range, entries, j + 1)
                      ELSE Returns(review_range, entries, j)

\* the case the amendment is about has happened: the first top-level entry
\* after the Introduction is no goal entry and was returned verbatim, though
\* a goal entry with an entry after it exists later
C4_Witness ==
    /\ review_range # NotCalled
    /\ intro_range.status = "ok"
    /\ intro_range.index = 1
    /\ NoReviewEntry(entries, 1)
    /\ Len(entries) = 4
    /\ ~ignore_pattern(entries[2].title)
    /\ ~fallback_keywords(entries[2].title)
    /\ fallback_keywords(entries[3].title)
    /\ Returns(review_range, entries, 2)
    /\ ~Returns(review_range, entries, 4)


\* the positions of the entries whose title holds an introduction keyword
IntroEntries == {i \in 1..Len(entries) : entries[i].title = "Vvedenie"}

\* C19: get_introduction_range selects the first entry whose title holds an
\* introduction keyword; it fails when no entry does or when that entry's
\* printed page is 10 or more; otherwise the end page is the page of the
\* next entry minus 1, and unresolved when the selected entry is the last.
C19_IntroductionRange ==
    intro_range # NotCalled =>
        IF IntroEntries = { } THEN intro_range.status = "error"
        ELSE LET i == SetMin(IntroEntries)
             IN  IF entries[i].page >= 10 THEN intro_range.status = "error"
                 ELSE /\ intro_range.status = "ok"
                      /\ intro_range.index = i
                      /\ intro_range.page = entries[i].page
                      /\ intro_range.end_page =
                             IF i = Len(entries) THEN None
                             ELSE Some(entries[i + 1].page - 1)

\* the second of three entries is the Introduction, on page 3, and the
\* entry after it is on page 20
C19_Witness ==
    /\ Len(entries) = 3
    /\ entries[1].title = "Zaklyuchenie"
    /\ entries[2] = [title |-> "Vvedenie", page |-> 3]
    /\ entries[3].page = 20
    /\ intro_range.status = "ok"
    /\ intro_range.index = 2
    /\ intro_range.end_page = Some(19)


\* the post-Introduction top-level review entries that have a later
\* top-level entry
ReviewHits(es, intro_index) ==
    {j \in TopLevelAfterIntro(es, intro_index) :
        IsReviewTitle(es[j].title) /\ NextSection(es, j + 1) # 0}

\* C26: a range found by the review keywords ends at the printed page of
\* the next top-level entry minus 1, not below its start page; a range
\* found by either fallback branch ends at the printed page of the next
\* top-level entry itself.
C26_FallbackEndsAtNextPage ==
    (review_range # NotCalled /\ review_range.status = "ok") =>
        LET idx == intro_range.index
            hits == ReviewHits(entries, idx)
        IN  IF hits # {}
            THEN LET j == SetMin(hits)
                     next_page == entries[NextSection(entries, j + 1)].page
                 IN  /\ review_range.page = entries[j].page
                     /\ review_range.end_page =
                            Some(IF next_page - 1 < entries[j].page
                                 THEN entries[j].page ELSE next_page - 1)
            ELSE \E s \in (idx + 1)..Len(entries) :
                     /\ review_range.title = entries[s].title
                     /\ review_range.page = entries[s].page
                     /\ NextSection(entries, s + 1) # 0
                     /\ review_range.end_page =
                            Some(entries[NextSection(entries, s + 1)].page)

\* the goal branch returned the entry after the goal entry, ending at the
\* page of the conclusion itself
C26_Witness ==
    /\ entries = <<[title |-> "Vvedenie", page |-> 3],
                   [title |-> "Postanovka zadachi", page |-> 3],
                   [title |-> "2.1 Metody", page |-> 5],
                   [title |-> "Zaklyuchenie", page |-> 20]>>
    /\ review_range # NotCalled
    /\ review_range.status = "ok"
    /\ review_range.page = 5
    /\ review_range.end_page = Some(20)
-----------------------------------------------------------------------------
(* The document as parse sees it.                                          *)
(*   toc_idx            the page index find_content returns, None when no  *)
(*                      page qualifies as the TOC page                     *)
(*   toc_entries        what processing_block reads on the TOC page, in    *)
(*                      top-to-bottom order (the order repair_content's    *)
(*                      sort by y0 gives)                                  *)
(*   numbers            [cont, next]: the page number candidates that      *)
(*                      get_real_page finds on the TOC page and on the     *)
(*                      page after it, in block order; next is None when   *)
(*                      the TOC page is the last page                      *)
(*   pages              per page (index 0 first), the kinds of span on it  *)
(* A span is [kw, bold, numbered]: the section keyword its text contains,  *)
(* whether its font is bold, whether a section number stands before the    *)
(* keyword or, with no keyword, before the words of the text.              *)

Span(kw, bold, numbered) == [kw |-> kw, bold |-> bold, numbered |-> numbered]

PlainText == Span("none", FALSE, FALSE)
BoldIntro == Span("vvedenie", TRUE, FALSE)
BoldReview == Span("obzor", TRUE, FALSE)
BoldOther == Span("none", TRUE, FALSE)

PageKinds == {{PlainText}, {BoldIntro}, {BoldReview}, {BoldOther}}

E(title, page) == [title |-> title, page |-> page]

\* TOCs of a document whose TOC page has index 1 and printed number 2
TocSamples ==
    { << >>,
      << E("Vvedenie", 3), E("Obzor literatury", 4), E("Zaklyuchenie", 5) >>,
      << E("Vvedenie", 3), E("Zaklyuchenie", 5) >>,
      << E("Vvedenie", 3) >>,
      << E("Vvedenie", 1), E("Zaklyuchenie", 5) >>,
      << E("Vvedenie", 20), E("Zaklyuchenie", 5) >>,
      << E("Obzor literatury", 3), E("Zaklyuchenie", 5) >>,
      << E("Zaklyuchenie", 2) >> }

PageSeqs == [1..NumPages -> PageKinds]

Numbers(cont, next) == [cont |-> cont, next |-> next]

\* no page number on either page; 2 on the TOC page and 3 on the next
NumberSamples == {Numbers(<< >>, Some(<< >>)), Numbers(<<2>>, Some(<<3>>))}

Docs ==
    {[toc_idx |-> None, toc_entries |-> << >>,
      numbers |-> Numbers(<< >>, Some(<< >>)), pages |-> ps] :
        ps \in PageSeqs}
    \cup
    {[toc_idx |-> Some(1), toc_entries |-> es, numbers |-> ns,
      pages |-> ps] :
        es \in TocSamples, ns \in NumberSamples, ps \in PageSeqs}

Ok(v) == [status |-> "ok", value |-> v]
Raise(e) == [status |-> "error", error |-> e]

find_content(d) ==
    IF IsNone(d.toc_idx) THEN Raise("RuntimeError: no TOC page")
    ELSE Ok(Val(d.toc_idx))

\* get_real_page(doc, toc_idx) and get_real_page(doc, toc_idx + 1): the
\* numbers of the candidates, in the order of the blocks
get_real_page(d, which) ==
    IF which = "cont" THEN Ok(d.numbers.cont)
    ELSE IF IsNone(d.numbers.next)
         THEN Raise("IndexError: page not in document")
         ELSE Ok(Val(d.numbers.next))

\* the positions of the TOC page candidates that a candidate of the next
\* page is at distance 1 from
Paired(cont, next) ==
    {i \in 1..Len(cont) :
        \E j \in 1..Len(next) :
            cont[i] - next[j] = 1 \/ next[j] - cont[i] = 1}

get_real_content_page(d) ==
    LET toc == find_content(d)
        cont == get_real_page(d, "cont").value
        next == get_real_page(d, "next")
    IN  IF toc.status = "error" THEN toc
        ELSE IF Len(cont) = 0
        THEN IF next.status = "error" THEN next
             ELSE IF Len(next.value) # 0 THEN Ok(Some(next.value[1] - 1))
             ELSE Ok(None)
        ELSE IF Len(cont) > 1
        THEN IF next.status = "error" THEN next
             ELSE IF Len(next.value) > 1
             THEN IF Paired(cont, next.value) = { } THEN Ok(None)
                  ELSE Ok(Some(cont[SetMin(Paired(cont, next.value))]))
             ELSE IF Len(next.value) = 0
             THEN Raise("IndexError: list index out of range")
             ELSE Ok(Some(next.value[1] - 1))
        ELSE Ok(Some(cont[1]))

\* (num_cont - real_num_cont) + num_real; a None operand is a TypeError
get_page_doc(d, num_real) ==
    LET num_cont == find_content(d)
        real_num_cont == get_real_content_page(d)
    IN  IF num_cont.status = "error" THEN num_cont
        ELSE IF real_num_cont.status = "error" THEN real_num_cont
        ELSE IF IsNone(real_num_cont.value) \/ IsNone(num_real)
             THEN Raise("TypeError: None operand")
             ELSE Ok((num_cont.value - Val(real_num_cont.value))
                         + Val(num_real))

\* the entry points at the TOC page itself
SelfReference(d, e) ==
    get_page_doc(d, Some(e.page)).value = Val(d.toc_idx)

repair_content_NoSelfFilter(d) ==
    LET toc == find_content(d)
    IN  IF toc.status = "error" THEN toc
        ELSE IF d.toc_entries = << >>
             THEN Raise("RuntimeError: no TOC entry parsed")
             ELSE IF get_page_doc(d, Some(d.toc_entries[1].page)).status = "error"
                  THEN get_page_doc(d, Some(d.toc_entries[1].page))
                  ELSE Ok(d.toc_entries)

repair_content(d) ==
    LET toc == find_content(d)
    IN  IF toc.status = "error" THEN toc
        ELSE IF d.toc_entries = << >>
             THEN Raise("RuntimeError: no TOC entry parsed")
             ELSE IF get_page_doc(d, Some(d.toc_entries[1].page)).status = "error"
                  THEN get_page_doc(d, Some(d.toc_entries[1].page))
                  ELSE Ok(SelectSeq(d.toc_entries,
                                    LAMBDA e : ~SelfReference(d, e)))

-----------------------------------------------------------------------------
(* find_section_range, as get_pages_for_parsing calls it                   *)
(* (flag_content = False: the first matching page is taken).               *)

\* the keyword is in the span's text, and the font is bold or
\* heading_with_number finds a section number before the keyword
IsSectionHeading(span, section_title) ==
    span.kw = section_title /\ (span.bold \/ span.numbered)

\* any_heading_pattern is r'^\s*\d+(\.\d+)*\[а-яА-я]+\b': its bracket is
\* escaped, so it asks for the literal text "[а-яА-я]" after the number and
\* matches no heading of these span kinds
any_heading_pattern(span) == FALSE

IsAnyHeading(span) == span.bold \/ any_heading_pattern(span)

RECURSIVE FirstHeadingPage(_, _, _)
\* the first loop over the pages, from sequence position i on: the position
\* of the first page with a heading of the section, 0 when there is none
FirstHeadingPage(pages, section_title, i) ==
    IF i > Len(pages) THEN 0
    ELSE IF \E span \in pages[i] : IsSectionHeading(span, section_title) THEN i
    ELSE FirstHeadingPage(pages, section_title, i + 1)

RECURSIVE NextHeadingPage(_, _)
\* the second loop: the first page from position i on with any heading
NextHeadingPage(pages, i) ==
    IF i > Len(pages) THEN 0
    ELSE IF \E span \in pages[i] : IsAnyHeading(span) THEN i
    ELSE NextHeadingPage(pages, i + 1)

\* positions are 1-based, page indices 0-based
find_section_range(d, section_title) ==
    LET found == FirstHeadingPage(d.pages, section_title, 1)
    IN  IF found = 0
        THEN Raise("ValueError: heading not found")
        ELSE LET page_found == found - 1
                 next == NextHeadingPage(d.pages, found + 1)
             IN  Ok([beg |-> page_found,
                     end |-> IF next # 0 THEN Some((next - 1) - 1) ELSE None])

-----------------------------------------------------------------------------
(* get_pages_for_parsing and parse                                         *)

\* Python truth of an optional integer: not None and not 0
Truthy(o) == ~IsNone(o) /\ Val(o) # 0

\* list(range(a, b + 1))
Range(a, b) == [i \in 1..(b - a + 1) |-> a + i - 1]

\* a missing page list read as an empty one
extract_paragraphs_from_pages_NoneAsEmpty(d, page_numbers) ==
    IF IsNone(page_numbers) THEN Ok([from_pages |-> << >>])
    ELSE IF \E k \in 1..Len(Val(page_numbers)) :
                Val(page_numbers)[k] >= Len(d.pages)
         THEN Raise("ValueError: page not in document")
         ELSE Ok([from_pages |-> Val(page_numbers)])

\* extract_paragraphs_from_pages starts `for page_num in page_numbers` and
\* loads each page; the paragraphs it returns are stood for by the pages
\* they are read from
extract_paragraphs_from_pages(d, page_numbers) ==
    IF IsNone(page_numbers) THEN Raise("TypeError: None is not iterable")
    ELSE IF \E k \in 1..Len(Val(page_numbers)) :
                Val(page_numbers)[k] >= Len(d.pages)
         THEN Raise("ValueError: page not in document")
         ELSE Ok([from_pages |-> Val(page_numbers)])

InitPages ==
    /\ doc \in Docs
    /\ pc = "start"
    /\ entries = << >>
    /\ intro_range = NotCalled
    /\ review_range = NotCalled
    /\ calls = << >>
    /\ error = None
    /\ flags = [content |-> TRUE, review |-> TRUE]
    /\ intro_idx = [beg |-> None, end |-> None]
    /\ review_idx = [beg |-> None, end |-> None]
    /\ page_lists = [intro |-> None, review |-> None]
    /\ parsed = [intro |-> None, review |-> None]
    /\ NoSplit
    /\ NoNorm
    /\ NoSection
    /\ NoLists
    /\ NoBatch
    /\ NoNumbers
    /\ NoExtract
    /\ NoScan
    /\ NoWrite
    /\ NoBlock
    /\ NoReal

\* try: entries = repair_content(doc) / except: print; then `if not entries`
RepairContent ==
    /\ pc = "start"
    /\ LET r == repair_content(doc)
       IN  /\ entries' = IF r.status = "ok" THEN r.value ELSE << >>
           /\ pc' = IF entries' = << >> THEN "scan_intro" ELSE "toc_intro"
    /\ calls' = Append(calls, "repair_content")
    /\ UNCHANGED notPages
    /\ UNCHANGED <<doc, intro_range, review_range, error, flags, intro_idx,
                   review_idx, page_lists, parsed>>

\* beg_intro, end_intro = find_section_range(doc, intro_title, False)
ScanIntroduction ==
    /\ pc = "scan_intro"
    /\ calls' = Append(calls, "find_section_range vvedenie")
    /\ LET r == find_section_range(doc, "vvedenie")
       IN  IF r.status = "error"
           THEN /\ pc' = "raised"
                /\ error' = Some(r.error)
                /\ UNCHANGED intro_idx
           ELSE /\ pc' = "scan_review"
                /\ intro_idx' = [beg |-> Some(r.value.beg), end |-> r.value.end]
                /\ UNCHANGED error
    /\ UNCHANGED notPages
    /\ UNCHANGED <<doc, entries, intro_range, review_range, flags, review_idx,
                   page_lists, parsed>>

\* try: beg_review, end_review = find_section_range(doc, review_title, False)
\* except: flag_review = False; then flag_content = False
ScanReview ==
    /\ pc = "scan_review"
    /\ calls' = Append(calls, "find_section_range obzor")
    /\ LET r == find_section_range(doc, "obzor")
       IN  IF r.status = "error"
           THEN /\ flags' = [content |-> FALSE, review |-> FALSE]
                /\ UNCHANGED review_idx
           ELSE /\ flags' = [content |-> FALSE, review |-> flags.review]
                /\ review_idx' = [beg |-> Some(r.value.beg), end |-> r.value.end]
    /\ pc' = "build"
    /\ UNCHANGED notPages
    /\ UNCHANGED <<doc, entries, intro_range, review_range, error, intro_idx,
                   page_lists, parsed>>

\* _, beg_intro, end_intro, intro_title = get_introduction_range(entries)
\* beg_intro, end_intro = get_page_doc(doc, beg_intro), get_page_doc(doc, end_intro)
TocIntroduction ==
    /\ pc = "toc_intro"
    /\ calls' = Append(calls, "get_introduction_range")
    /\ LET r == get_introduction_range(entries)
           beg == get_page_doc(doc, Some(r.page))
           end == get_page_doc(doc, r.end_page)
       IN  /\ intro_range' = r
           /\ IF r.status = "error"
              THEN /\ pc' = "raised"
                   /\ error' = Some(r.error)
                   /\ UNCHANGED intro_idx
              ELSE IF beg.status = "error" \/ end.status = "error"
              THEN /\ pc' = "raised"
                   /\ error' = Some(IF beg.status = "error" THEN beg.error
                                    ELSE end.error)
                   /\ intro_idx' = [beg |-> Some(r.page), end |-> r.end_page]
              ELSE /\ pc' = "toc_review"
                   /\ intro_idx' = [beg |-> Some(beg.value), end |-> Some(end.value)]
                   /\ UNCHANGED error
    /\ UNCHANGED notPages
    /\ UNCHANGED <<doc, entries, review_range, flags, review_idx, page_lists,
                   parsed>>

\* try: review_title, beg_review, end_review = get_review_range(entries)
\*      beg_review, end_review = get_page_doc(...), get_page_doc(...)
\* except: flag_review = False
TocReview ==
    /\ pc = "toc_review"
    /\ calls' = Append(calls, "get_review_range")
    /\ LET r == get_review_range(entries)
           beg == get_page_doc(doc, Some(r.page))
           end == get_page_doc(doc, r.end_page)
       IN  /\ review_range' = r
           /\ IF r.status = "error"
              THEN /\ flags' = [flags EXCEPT !.review = FALSE]
                   /\ UNCHANGED review_idx
              ELSE IF beg.status = "error" \/ end.status = "error"
              THEN /\ flags' = [flags EXCEPT !.review = FALSE]
                   /\ review_idx' = [beg |-> Some(r.page), end |-> r.end_page]
              ELSE /\ review_idx' = [beg |-> Some(beg.value), end |-> Some(end.value)]
                   /\ UNCHANGED flags
    /\ pc' = "build"
    /\ UNCHANGED notPages
    /\ UNCHANGED <<doc, entries, intro_range, error, intro_idx, page_lists,
                   parsed>>

\* if beg_intro and end_intro: intro_pages = list(range(...)) else None
\* if flag_review: review_pages = list(range(beg_review, end_review + 1))
BuildPageLists ==
    /\ pc = "build"
    /\ LET intro_pages ==
               IF Truthy(intro_idx.beg) /\ Truthy(intro_idx.end)
               THEN Some(Range(Val(intro_idx.beg), Val(intro_idx.end)))
               ELSE None
       IN  IF flags.review /\ IsNone(review_idx.end)
           THEN /\ pc' = "raised"
                /\ error' = Some("TypeError: None operand")
                /\ page_lists' = [intro |-> intro_pages, review |-> None]
           ELSE /\ pc' = "returned"
                /\ page_lists' =
                       [intro  |-> intro_pages,
                        review |-> IF flags.review
                                   THEN Some(Range(Val(review_idx.beg),
                                                   Val(review_idx.end)))
                                   ELSE None]
                /\ UNCHANGED error
    /\ UNCHANGED notPages
    /\ UNCHANGED <<doc, entries, intro_range, review_range, calls, flags,
                   intro_idx, review_idx, parsed>>

\* parse after get_pages_for_parsing has returned: the Introduction is
\* extracted, then the Review if flag_review
ExtractParagraphs ==
    /\ pc = "returned"
    /\ LET intro == extract_paragraphs_from_pages(doc, page_lists.intro)
           review == extract_paragraphs_from_pages(doc, page_lists.review)
       IN  IF intro.status = "error"
           THEN /\ pc' = "raised"
                /\ error' = Some(intro.error)
                /\ UNCHANGED parsed
           ELSE IF flags.review /\ review.status = "error"
           THEN /\ pc' = "raised"
                /\ error' = Some(review.error)
                /\ parsed' = [intro |-> Some(intro.value), review |-> None]
           ELSE /\ pc' = "parsed"
                /\ parsed' =
                       [intro  |-> Some(intro.value),
                        review |-> IF flags.review THEN Some(review.value)
                                   ELSE None]
                /\ UNCHANGED error
    /\ UNCHANGED notPages
    /\ UNCHANGED <<doc, entries, intro_range, review_range, calls, flags,
                   intro_idx, review_idx, page_lists>>

NextPages ==
    \/ RepairContent
    \/ ScanIntroduction
    \/ ScanReview
    \/ TocIntroduction
    \/ TocReview
    \/ BuildPageLists
    \/ ExtractParagraphs

SpecPages == InitPages /\ [][NextPages]_vars

-----------------------------------------------------------------------------
(* Claims about get_pages_for_parsing and parse, checked under SpecPages.  *)

ScannedForIntroduction ==
    \E k \in 1..Len(calls) : calls[k] = "find_section_range vvedenie"

\* the TOC gives no entry at all: no TOC page, no parsable entry, the page
\* number offset unresolved, or every entry pointing at the TOC page itself
TocGivesNoEntries(d) ==
    \/ IsNone(d.toc_idx)
    \/ d.toc_entries = << >>
    \/ get_real_content_page(d) = Ok(None)
    \/ \A k \in 1..Len(d.toc_entries) : SelfReference(d, d.toc_entries[k])

\* a TOC is parsed, and it has no usable Introduction entry
TocWithoutIntroduction(d) ==
    /\ ~TocGivesNoEntries(d)
    /\ get_introduction_range(
           SelectSeq(d.toc_entries, LAMBDA e : ~SelfReference(d, e))).status
         = "error"

\* C5 as stated: whenever the TOC path cannot yield an Introduction range
\* (no TOC page, no parsable entries, offset unresolved, or a parsed TOC with
\* no usable Introduction entry), the heading scanner has been invoked for
\* the Introduction before any error reaches the caller.
C5_ScanBeforeAnyError ==
    (pc = "raised" /\ (TocGivesNoEntries(doc) \/ TocWithoutIntroduction(doc)))
        => ScannedForIntroduction

\* C5 amended: whenever the TOC gives no entries (no TOC page, no parsable
\* entries, offset unresolved, every entry dropped) the heading scanner has
\* been invoked for the Introduction before any error reaches the caller;
\* a parsed TOC with no usable Introduction entry raises the error of
\* get_introduction_range without the heading scanner ever being invoked.
C5_ScanOnlyWithoutToc ==
    /\ (pc = "raised" /\ TocGivesNoEntries(doc)) => ScannedForIntroduction
    /\ TocWithoutIntroduction(doc) =>
          /\ pc \in {"start", "toc_intro", "raised"}
          /\ ~ScannedForIntroduction
          /\ pc = "raised" => error \in {Some("intro not found"),
                                         Some("intro page >= 10")}

\* a TOC page was found but gave no entries, the scanner was tried for the
\* Introduction, found nothing, and only then did the error reach the caller
C5_Witness ==
    /\ pc = "raised"
    /\ ~IsNone(doc.toc_idx)
    /\ TocGivesNoEntries(doc)
    /\ ScannedForIntroduction
    /\ error = Some("ValueError: heading not found")

IntroductionResolved == Truthy(intro_idx.beg) /\ Truthy(intro_idx.end)

\* the Review was not found, or was found with an open end
ReviewUnresolved == ~flags.review \/ IsNone(review_idx.end)

\* C6: failure to resolve the Review is never fatal: with the Introduction
\* resolved and the Review not found or found open-ended, on either path,
\* nothing is raised and parse returns the Introduction paragraphs with the
\* Review absent.
C6_ReviewFailureNotFatal ==
    (pc \in {"raised", "parsed"} /\ IntroductionResolved /\ ReviewUnresolved)
        => /\ pc = "parsed"
           /\ ~IsNone(parsed.intro)
           /\ IsNone(parsed.review)


\* an index that is resolved and is not 0
ResolvedNonZero(o) == o # None /\ Val(o) # 0

\* C27: the Introduction page list is produced only when both the start
\* and the end index are resolved and non-zero; otherwise there is no list,
\* and parse raises instead of returning paragraphs.
C27_NoIntroListRaises ==
    /\ [](page_lists.intro # None =>
              /\ ResolvedNonZero(intro_idx.beg)
              /\ ResolvedNonZero(intro_idx.end)
              /\ page_lists.intro =
                     Some(Range(Val(intro_idx.beg), Val(intro_idx.end))))
    /\ []((pc \in {"returned", "parsed"}
              /\ ~(ResolvedNonZero(intro_idx.beg)
                       /\ ResolvedNonZero(intro_idx.end)))
             => pc = "returned" /\ page_lists.intro = None)
    /\ [][(pc = "returned" /\ page_lists.intro = None)
             => (pc' = "raised" /\ parsed' = parsed)]_vars

\* the Introduction heading is on the page of index 0: no list, and the
\* loop over the missing list raised
C27_Witness ==
    /\ pc = "raised"
    /\ ~flags.content
    /\ intro_idx.beg = Some(0)
    /\ intro_idx.end # None
    /\ page_lists.intro = None
    /\ parsed.intro = None
    /\ error = Some("TypeError: None is not iterable")
-----------------------------------------------------------------------------
(* Text.  A string is kept as its runs: a sequence of [c, n], n >= 1       *)
(* characters of class c, neighbouring runs of different classes.  The     *)
(* classes are "a" (a letter or any other character that is none of the    *)
(* following), " " (a space), "." (a period) and "?" (a question or        *)
(* exclamation mark).  Lengths and positions are those of the string:      *)
(* positions count from 0 as in Python.                                    *)

Run(c, n) == [c |-> c, n |-> n]

RECURSIVE TextLen(_)
\* len(t)
TextLen(t) == IF t = << >> THEN 0 ELSE t[1].n + TextLen(Tail(t))

RECURSIVE NoSpaceLen(_)
\* len(t.replace(" ", ""))
NoSpaceLen(t) ==
    IF t = << >> THEN 0
    ELSE (IF t[1].c = " " THEN 0 ELSE t[1].n) + NoSpaceLen(Tail(t))

\* t + u
Cat(t, u) ==
    IF t = << >> THEN u
    ELSE IF u = << >> THEN t
    ELSE IF t[Len(t)].c = u[1].c
         THEN SubSeq(t, 1, Len(t) - 1)
                  \o << Run(u[1].c, t[Len(t)].n + u[1].n) >>
                  \o Tail(u)
         ELSE t \o u

RECURSIVE Take(_, _)
\* t[:m]
Take(t, m) ==
    IF m <= 0 \/ t = << >> THEN << >>
    ELSE IF t[1].n <= m THEN << t[1] >> \o Take(Tail(t), m - t[1].n)
    ELSE << Run(t[1].c, m) >>

RECURSIVE Drop(_, _)
\* t[m:]
Drop(t, m) ==
    IF m <= 0 \/ t = << >> THEN t
    ELSE IF t[1].n <= m THEN Drop(Tail(t), m - t[1].n)
    ELSE << Run(t[1].c, t[1].n - m) >> \o Tail(t)

\* t.strip()
Strip(t) ==
    LET l == IF t # << >> /\ t[1].c = " " THEN Tail(t) ELSE t
    IN  IF l # << >> /\ l[Len(l)].c = " " THEN SubSeq(l, 1, Len(l) - 1) ELSE l

RECURSIVE FindFrom(_, _, _, _)
\* t.find(ch, start), t beginning at position off of the whole string
FindFrom(t, off, ch, start) ==
    IF t = << >> THEN -1
    ELSE IF t[1].c = ch /\ off + t[1].n > start
         THEN IF off > start THEN off ELSE start
         ELSE FindFrom(Tail(t), off + t[1].n, ch, start)

Find(t, ch, start) == FindFrom(t, 0, ch, start)

\* t.endswith(('.', '!', '?'))
EndsSentence(t) == t # << >> /\ t[Len(t)].c \in {".", "?"}

-----------------------------------------------------------------------------
(* split_paragraphs                                                        *)

MIN_BLOCK_LEN == 600
MAX_BLOCK_LEN == 900
LARGE_BLOCK_LEN == 1200

\* three words of a, b and c letters and a closing character
W3(a, b, c, closing) ==
    << Run("a", a), Run(" ", 1), Run("a", b), Run(" ", 1), Run("a", c),
       Run(closing, 1) >>

\* The sentences a section may hold, named by their non-space length.
S300 == W3(100, 100, 99, ".")
S700 == W3(300, 200, 199, ".")
S1000 == W3(400, 300, 299, "?")
\* no closing punctuation
S400Open == << Run("a", 200), Run(" ", 1), Run("a", 100), Run(" ", 1), Run("a", 100) >>
\* over-long, its only period the last character
S1300 == W3(500, 400, 399, ".")
\* over-long, a period just after the midpoint
S1400 ==
    << Run("a", 350), Run(" ", 1), Run("a", 351), Run(".", 1), Run(" ", 1),
       Run("a", 349), Run(" ", 1), Run("a", 348), Run(".", 1) >>
\* over-long, no period at all
S1300NoPeriod ==
    << Run("a", 500), Run(" ", 1), Run("a", 400), Run(" ", 1), Run("a", 400) >>
\* over-long, its only period before the midpoint
S1301EarlyPeriod ==
    << Run("a", 100), Run(".", 1), Run(" ", 1), Run("a", 600), Run(" ", 1),
       Run("a", 600) >>
\* twice over-long, a period just after the midpoint
S2601 ==
    << Run("a", 700), Run(" ", 1), Run("a", 650), Run(".", 1), Run(" ", 1),
       Run("a", 600), Run(" ", 1), Run("a", 649), Run(".", 1) >>

SentenceSet ==
    {S300, S700, S1000, S400Open, S1300, S1400, S1300NoPeriod,
     S1301EarlyPeriod, S2601}

SentenceLists == UNION {[1..n -> SentenceSet] : n \in 0..MaxSentences}

\* mid = len(s) // 2
Mid(s) == TextLen(s) \div 2

\* cut = s.find('.', mid), and mid when there is no such period
Cut(s) == IF Find(s, ".", Mid(s)) = -1 THEN Mid(s) ELSE Find(s, ".", Mid(s))

\* part1 = s[:cut + 1].strip()
Part1(s) == Strip(Take(s, Cut(s) + 1))

\* part2 = s[cut + 1:].strip()
Part2(s) == Strip(Drop(s, Cut(s) + 1))

\* the part is never appended
AppendIf_Never(ps, x) == ps

\* paragraphs.append(x) `if x:`
AppendIf(ps, x) == IF x # << >> THEN Append(ps, x) ELSE ps

InitSplit ==
    /\ sentences \in SentenceLists
    /\ next_sentence = 1
    /\ paragraphs = << >>
    /\ buf = << >>
    /\ buf_nospace = 0
    /\ split_pc = "loop"
    /\ entries = << >>
    /\ intro_range = NotCalled
    /\ review_range = NotCalled
    /\ NoParse
    /\ NoNorm
    /\ NoSection
    /\ NoLists
    /\ NoBatch
    /\ NoNumbers
    /\ NoExtract
    /\ NoScan
    /\ NoWrite
    /\ NoBlock
    /\ NoReal

\* the sentence the loop is at, and slen
S == sentences[next_sentence]
SLen == NoSpaceLen(S)

\* if slen > LARGE_BLOCK_LEN: the sentence is cut in two, the buffer is
\* flushed first, the two parts are appended
SplitLongSentence ==
    /\ split_pc = "loop"
    /\ next_sentence <= Len(sentences)
    /\ SLen > LARGE_BLOCK_LEN
    /\ paragraphs' = AppendIf(AppendIf(AppendIf(paragraphs, buf), Part1(S)),
                              Part2(S))
    /\ buf' = << >>
    /\ buf_nospace' = 0
    /\ next_sentence' = next_sentence + 1
    /\ UNCHANGED <<sentences, split_pc, notSplit>>

\* if buf_nospace + slen <= MAX_BLOCK_LEN: the sentence joins the buffer,
\* which is flushed when long enough and closed by punctuation
AddToBuffer ==
    /\ split_pc = "loop"
    /\ next_sentence <= Len(sentences)
    /\ SLen <= LARGE_BLOCK_LEN
    /\ buf_nospace + SLen <= MAX_BLOCK_LEN
    /\ LET joined == IF buf # << >>
                     THEN Strip(Cat(Cat(buf, << Run(" ", 1) >>), S))
                     ELSE S
           joined_nospace == buf_nospace + SLen
       IN  IF joined_nospace >= MIN_BLOCK_LEN /\ EndsSentence(joined)
           THEN /\ paragraphs' = Append(paragraphs, joined)
                /\ buf' = << >>
                /\ buf_nospace' = 0
           ELSE /\ buf' = joined
                /\ buf_nospace' = joined_nospace
                /\ UNCHANGED paragraphs
    /\ next_sentence' = next_sentence + 1
    /\ UNCHANGED <<sentences, split_pc, notSplit>>

\* else: the buffer is flushed early and the sentence starts the next one
FlushEarly ==
    /\ split_pc = "loop"
    /\ next_sentence <= Len(sentences)
    /\ SLen <= LARGE_BLOCK_LEN
    /\ buf_nospace + SLen > MAX_BLOCK_LEN
    /\ paragraphs' = AppendIf(paragraphs, buf)
    /\ buf' = S
    /\ buf_nospace' = SLen
    /\ next_sentence' = next_sentence + 1
    /\ UNCHANGED <<sentences, split_pc, notSplit>>

\* after the loop: what is left in the buffer is the last paragraph
FlushRest ==
    /\ split_pc = "loop"
    /\ next_sentence > Len(sentences)
    /\ paragraphs' = AppendIf(paragraphs, buf)
    /\ split_pc' = "done"
    /\ UNCHANGED <<sentences, next_sentence, buf, buf_nospace, notSplit>>

NextSplit == SplitLongSentence \/ AddToBuffer \/ FlushEarly \/ FlushRest

SpecSplit == InitSplit /\ [][NextSplit]_vars

-----------------------------------------------------------------------------
(* Claims about split_paragraphs, checked under SpecSplit.                 *)

\* C7: every returned paragraph other than the first and the last has a
\* non-space character count within [600, 900].
C7_InnerParagraphsInRange ==
    split_pc = "done" =>
        \A k \in 2..(Len(paragraphs) - 1) :
            /\ NoSpaceLen(paragraphs[k]) >= MIN_BLOCK_LEN
            /\ NoSpaceLen(paragraphs[k]) <= MAX_BLOCK_LEN

\* a half of an over-long sentence in which no period was found at or after
\* its midpoint
HalfCutAtMidpoint(p) ==
    \E k \in 1..Len(sentences) :
        /\ NoSpaceLen(sentences[k]) > LARGE_BLOCK_LEN
        /\ Find(sentences[k], ".", Mid(sentences[k])) = -1
        /\ p \in {Strip(Take(sentences[k], Mid(sentences[k]) + 1)),
                  Strip(Drop(sentences[k], Mid(sentences[k]) + 1))}

\* C8: no returned paragraph has more than 1200 non-space characters, except
\* a half produced by splitting an over-long sentence in which no period was
\* found at or after its midpoint.
C8_AtMostLargeBlockLen ==
    split_pc = "done" =>
        \A k \in 1..Len(paragraphs) :
            \/ NoSpaceLen(paragraphs[k]) <= LARGE_BLOCK_LEN
            \/ HalfCutAtMidpoint(paragraphs[k])


\* t without its spaces
RECURSIVE WithoutSpaces(_)
WithoutSpaces(t) ==
    IF t = << >> THEN << >>
    ELSE IF t[1].c = " " THEN WithoutSpaces(Tail(t))
    ELSE Cat(<< t[1] >>, WithoutSpaces(Tail(t)))

\* the texts of ts one after the other, without their spaces
RECURSIVE Concatenated(_)
Concatenated(ts) ==
    IF ts = << >> THEN << >>
    ELSE Cat(WithoutSpaces(ts[1]), Concatenated(Tail(ts)))

\* C30: the returned paragraphs, one after the other, are the input
\* sentences, one after the other, up to spaces: nothing is dropped,
\* doubled or moved.
C30_SplitKeepsText ==
    split_pc = "done" => Concatenated(paragraphs) = Concatenated(sentences)

\* an early flush, then a sentence cut at its midpoint
C30_Witness ==
    /\ split_pc = "done"
    /\ sentences = <<S400Open, S700, S1300NoPeriod>>
    /\ Len(paragraphs) = 4
-----------------------------------------------------------------------------
(***************************************************************************)
(* The normalizer, character by character.  A text is a sequence of        *)
(* characters; each character below stands for its class in the regular    *)
(* expressions of partition_preprocess.py:                                 *)
(*   "A"  an uppercase Cyrillic letter       "1"   a digit                 *)
(*   "i"  the lowercase letter U+0438        "nl"  the newline             *)
(*   "j"  the lowercase letter U+0439        "tab" the tabulation          *)
(*   "breve" the combining breve U+0306 (U+0438 U+0306 composes to U+0439) *)
(*   "nbsp" the no-break space U+00A0                                      *)
(***************************************************************************)
Chars ==
    {"A", "i", "j", "breve", "1", ".", ",", " ", "nl", "tab", "-", "[", "]"}

MaxChars == 4

Texts == UNION {[1..n -> Chars] : n \in 0..MaxChars}

WhiteSpace == {" ", "nl", "tab", "nbsp"}     \* \s
Digit == {"1"}                               \* \d
UpperOrSpace == WhiteSpace \cup {"A"}        \* [\sA-ZА-ЯЁ]
Punct == {".", ","}                          \* [,;:.!?]
ControlChars == {"nl", "tab"}                \* [\u0000-\u001F\u007F-\u009F]

\* the first position from i on whose character is not in cs
SpanEnd(t, i, cs) ==
    LET stops == {k \in i..Len(t) : t[k] \notin cs}
    IN  IF stops = {} THEN Len(t) + 1
        ELSE CHOOSE k \in stops : \A m \in stops : k <= m

\* str.replace(old, new): left to right, matches do not overlap
RECURSIVE str_replace(_, _, _)
str_replace(t, old, new) ==
    IF Len(t) < Len(old) THEN t
    ELSE IF SubSeq(t, 1, Len(old)) = old
         THEN new \o str_replace(SubSeq(t, Len(old) + 1, Len(t)), old, new)
         ELSE <<t[1]>> \o str_replace(Tail(t), old, new)

\* re.sub of every run of at least `least` characters of cs by rep
RECURSIVE SubRuns(_, _, _, _)
SubRuns(t, cs, least, rep) ==
    IF t = << >> THEN << >>
    ELSE LET e == SpanEnd(t, 1, cs)
         IN  IF e - 1 >= least
             THEN rep \o SubRuns(SubSeq(t, e, Len(t)), cs, least, rep)
             ELSE <<t[1]>> \o SubRuns(Tail(t), cs, least, rep)

\* str.strip()
str_strip(t) ==
    LET keep == {k \in 1..Len(t) : t[k] \notin WhiteSpace}
    IN  IF keep = {} THEN << >>
        ELSE SubSeq(t,
                    CHOOSE k \in keep : \A m \in keep : k <= m,
                    CHOOSE k \in keep : \A m \in keep : k >= m)

clean_raw_text(t) ==
    LET joined == str_replace(t, <<"-", "nl">>, << >>)
        no_nl == str_replace(joined, <<"nl">>, <<" ">>)
        no_tab == str_replace(str_replace(no_nl, <<"tab">>, <<" ">>),
                              <<"nbsp">>, <<" ">>)
        squeezed == SubRuns(no_tab, WhiteSpace, 1, <<" ">>)
        again == SubRuns(squeezed, {" "}, 2, <<" ">>)
    IN  str_strip(again)

\* unicodedata.normalize('NFC', text): the one composition among Chars
normalize_unicode(t) == str_replace(t, <<"i", "breve">>, <<"j">>)

\* \d+ at i: the position after it, 0 when it does not match
Digits1(t, i) ==
    IF i <= Len(t) /\ t[i] \in Digit THEN SpanEnd(t, i, Digit) ELSE 0

\* (-\d+)? at i: the position after it
OptRange(t, i) ==
    IF i <= Len(t) /\ t[i] = "-" /\ Digits1(t, i + 1) # 0
    THEN Digits1(t, i + 1)
    ELSE i

\* \d+(-\d+)? at i: the position after it, 0 when it does not match
NumRange(t, i) ==
    IF Digits1(t, i) = 0 THEN 0 ELSE OptRange(t, Digits1(t, i))

\* (?:,\s*\d+(-\d+)?)* at i: the position after it
RECURSIVE MoreItems(_, _)
MoreItems(t, i) ==
    IF i <= Len(t) /\ t[i] = ","
    THEN LET n == NumRange(t, SpanEnd(t, i + 1, WhiteSpace))
         IN  IF n = 0 THEN i ELSE MoreItems(t, n)
    ELSE i

\* RE_REFERENCES at i: the position after the match, 0 when there is none
MatchReference(t, i) ==
    IF t[i] # "[" \/ NumRange(t, i + 1) = 0 THEN 0
    ELSE LET m == MoreItems(t, NumRange(t, i + 1))
         IN  IF m <= Len(t) /\ t[m] = "]" THEN m + 1 ELSE 0

\* RE_REFERENCES.sub('', text), from position i on
RECURSIVE RE_REFERENCES_sub(_, _)
RE_REFERENCES_sub(t, i) ==
    IF i > Len(t) THEN << >>
    ELSE IF MatchReference(t, i) # 0
         THEN RE_REFERENCES_sub(t, MatchReference(t, i))
         ELSE <<t[i]>> \o RE_REFERENCES_sub(t, i + 1)

\* (\.\d+)* at i: the position after it
RECURSIVE DottedParts(_, _)
DottedParts(t, i) ==
    IF i <= Len(t) /\ t[i] = "." /\ Digits1(t, i + 1) # 0
    THEN DottedParts(t, Digits1(t, i + 1))
    ELSE i

\* RE_HEADING_NUM.match(text)
RE_HEADING_NUM_match(t) ==
    LET d == Digits1(t, SpanEnd(t, 1, WhiteSpace))
    IN  /\ d # 0
        /\ DottedParts(t, d) <= Len(t)
        /\ t[DottedParts(t, d)] \in WhiteSpace

\* RE_HEADING_WORD.match(text)
RE_HEADING_WORD_match(t) ==
    /\ Len(t) >= 2
    /\ \A k \in 1..Len(t) : t[k] \in UpperOrSpace

\* RE_SPACE_PUNCT.sub(r'\1 \2', text), from position i on: a match takes
\* the punctuation mark and the character after it
RECURSIVE RE_SPACE_PUNCT_sub(_, _)
RE_SPACE_PUNCT_sub(t, i) ==
    IF i > Len(t) THEN << >>
    ELSE IF t[i] \in Punct /\ i < Len(t) /\ t[i + 1] \notin WhiteSpace
         THEN <<t[i], " ", t[i + 1]>> \o RE_SPACE_PUNCT_sub(t, i + 2)
         ELSE <<t[i]>> \o RE_SPACE_PUNCT_sub(t, i + 1)

\* RE_MULTI_DOTS.sub('...', text)
RE_MULTI_DOTS_sub(t) == SubRuns(t, {"."}, 4, <<".", ".", ".">>)

\* RE_CONTROL_CHARS.sub(' ', text)
RE_CONTROL_CHARS_sub(t) ==
    [k \in 1..Len(t) |-> IF t[k] \in ControlChars THEN " " ELSE t[k]]

remove_artifacts(t) ==
    LET no_refs == RE_REFERENCES_sub(normalize_unicode(t), 1)
    IN  IF \/ RE_HEADING_NUM_match(no_refs)
           \/ RE_HEADING_WORD_match(str_strip(no_refs))
        THEN << >>
        ELSE str_strip(RE_CONTROL_CHARS_sub(RE_MULTI_DOTS_sub(
                 RE_SPACE_PUNCT_sub(no_refs, 1))))

InitNorm ==
    /\ text \in Texts
    /\ txt = text
    /\ outputs = << >>
    /\ norm_pc = "raw"
    /\ entries = << >>
    /\ intro_range = NotCalled
    /\ review_range = NotCalled
    /\ NoParse
    /\ NoSplit
    /\ NoSection
    /\ NoLists
    /\ NoBatch
    /\ NoNumbers
    /\ NoExtract
    /\ NoScan
    /\ NoWrite
    /\ NoBlock
    /\ NoReal

\* txt = clean_raw_text(block)
CleanRawText ==
    /\ norm_pc = "raw"
    /\ txt' = clean_raw_text(txt)
    /\ norm_pc' = "cleaned"
    /\ UNCHANGED <<text, outputs, notNorm>>

\* txt = remove_artifacts(txt)
RemoveArtifacts ==
    /\ norm_pc = "cleaned"
    /\ txt' = remove_artifacts(txt)
    /\ outputs' = Append(outputs, txt')
    /\ norm_pc' = "normalized"
    /\ UNCHANGED <<text, notNorm>>

\* the text the normalizer returned is given to it once more
NormalizeOutput ==
    /\ norm_pc = "normalized"
    /\ Len(outputs) = 1
    /\ norm_pc' = "raw"
    /\ UNCHANGED <<text, txt, outputs, notNorm>>

NextNorm == CleanRawText \/ RemoveArtifacts \/ NormalizeOutput

SpecNorm == InitNorm /\ [][NextNorm]_vars

\* C10: the normalizer is idempotent: clean_raw_text followed by
\* remove_artifacts, applied to a text that is its own output, returns that
\* text unchanged, runs of dots and punctuation directly followed by a
\* non-space character included.
C10_NormalizerIdempotent ==
    Len(outputs) = 2 => outputs[2] = outputs[1]

-----------------------------------------------------------------------------
(***************************************************************************)
(* The block loop of process_file.  A sentence is what sentence_filters    *)
(* and the comparison s != prev look at: its text (a name standing for the *)
(* characters), its number of words, its length, its number of characters  *)
(* that are not Cyrillic letters and the class of its first character.  A  *)
(* raw block is what clean_and_filter_block looks at once the normalizer   *)
(* has run: the length of txt, its number of digits, whether it holds      *)
(* seven dots in a row, the sentences split_to_sentences gives and whether *)
(* the raw block ends with one of . ! ?                                    *)
(***************************************************************************)
MIN_SENT_WORDS == 3
\* 0.6 and 0.7, as fractions
MAX_NON_CYRILLIC_RATIO == [num |-> 6, den |-> 10]
DIGIT_RATIO_CHECK == [num |-> 7, den |-> 10]

Sent(name, words, total, non_cyr, first) ==
    [text |-> name, words |-> words, total |-> total, non_cyr |-> non_cyr,
     first |-> first]

SentA == Sent("A", 4, 30, 5, "upper_cyrillic")
SentB == Sent("B", 5, 40, 7, "upper_cyrillic")
\* a caption of two words
SentShort == Sent("short", 2, 12, 3, "upper_cyrillic")
\* a sentence in Latin letters
SentLatin == Sent("latin", 4, 30, 28, "other")

\* an item of a list: "- " and four words
SentBullet == Sent("bullet", 4, 30, 6, "bullet")

SentKinds == {SentA, SentB, SentShort, SentLatin, SentBullet}

\* the test of the first character left out
sentence_filters_AnyFirst(sent) ==
    IF sent.words = 0 THEN FALSE
    ELSE IF sent.words < MIN_SENT_WORDS THEN FALSE
    ELSE IF /\ sent.total > 0
            /\ sent.non_cyr * MAX_NON_CYRILLIC_RATIO.den
                   > MAX_NON_CYRILLIC_RATIO.num * sent.total
         THEN FALSE
    ELSE TRUE

sentence_filters(sent) ==
    IF sent.words = 0 THEN FALSE
    ELSE IF sent.words < MIN_SENT_WORDS THEN FALSE
    ELSE IF /\ sent.total > 0
            /\ sent.non_cyr * MAX_NON_CYRILLIC_RATIO.den
                   > MAX_NON_CYRILLIC_RATIO.num * sent.total
         THEN FALSE
    ELSE IF sent.first # "upper_cyrillic" THEN FALSE
    ELSE TRUE

TextBlock(sents, closed) ==
    [txt_len |-> 100, digits |-> 2, many_dots |-> FALSE, sents |-> sents,
     closed |-> closed]
\* a block the normalizer empties (blank, or a heading)
EmptyBlock ==
    [txt_len |-> 0, digits |-> 0, many_dots |-> FALSE, sents |-> << >>,
     closed |-> FALSE]
\* a line of the table of contents with its dot leader
DottedBlock ==
    [txt_len |-> 40, digits |-> 2, many_dots |-> TRUE, sents |-> <<SentA>>,
     closed |-> FALSE]
\* a column of numbers
DigitBlock ==
    [txt_len |-> 10, digits |-> 8, many_dots |-> FALSE, sents |-> << >>,
     closed |-> FALSE]

BlockSents ==
    {<< >>} \cup {<<a>> : a \in SentKinds}
            \cup {<<a, b>> : a \in SentKinds, b \in SentKinds}

RawBlocks ==
    {TextBlock(ss, c) : ss \in BlockSents, c \in BOOLEAN}
        \cup {EmptyBlock, DottedBlock, DigitBlock}

MaxBlocks == 2

BlockLists == UNION {[1..n -> RawBlocks] : n \in 0..MaxBlocks}

\* the loop over filtered that skips a sentence equal to the one before it
RECURSIVE Dedup(_, _)
Dedup(filtered, prev) ==
    IF filtered = << >> THEN << >>
    ELSE (IF Some(filtered[1]) # prev THEN <<filtered[1]>> ELSE << >>)
             \o Dedup(Tail(filtered), Some(filtered[1]))

clean_and_filter_block(block, is_last) ==
    IF block.txt_len = 0 THEN << >>
    ELSE IF block.many_dots THEN << >>
    ELSE IF block.digits * DIGIT_RATIO_CHECK.den
                > DIGIT_RATIO_CHECK.num * block.txt_len
         THEN << >>
    ELSE LET kept == SelectSeq(block.sents, sentence_filters)
             filtered ==
                 IF is_last /\ ~block.closed /\ kept # << >>
                 THEN SubSeq(kept, 1, Len(kept) - 1)
                 ELSE kept
         IN  Dedup(filtered, None)

InitSection ==
    /\ blocks \in BlockLists
    /\ block_j = 1
    /\ all_sents = << >>
    /\ sect_pc = "loop"
    /\ entries = << >>
    /\ intro_range = NotCalled
    /\ review_range = NotCalled
    /\ NoParse
    /\ NoSplit
    /\ NoNorm
    /\ NoLists
    /\ NoBatch
    /\ NoNumbers
    /\ NoExtract
    /\ NoScan
    /\ NoWrite
    /\ NoBlock
    /\ NoReal

\* one turn of `for j, blk in enumerate(blocks)`
ProcessBlock ==
    /\ sect_pc = "loop"
    /\ block_j <= Len(blocks)
    /\ all_sents' = all_sents \o
           clean_and_filter_block(blocks[block_j], block_j = Len(blocks))
    /\ block_j' = block_j + 1
    /\ UNCHANGED <<blocks, sect_pc, notSect>>

\* the loop has taken every block
BlocksDone ==
    /\ sect_pc = "loop"
    /\ block_j > Len(blocks)
    /\ sect_pc' = "done"
    /\ UNCHANGED <<blocks, block_j, all_sents, notSect>>

NextSect == ProcessBlock \/ BlocksDone

SpecSection == InitSection /\ [][NextSect]_vars

\* C9: in the sentence list process_file builds for a section (the results
\* of clean_and_filter_block over all its raw blocks, concatenated) no two
\* consecutive sentences are identical, the last sentence of one raw block
\* and the first sentence of the next included.
C9_NoConsecutiveDuplicates ==
    \A k \in 1..(Len(all_sents) - 1) : all_sents[k] # all_sents[k + 1]

-----------------------------------------------------------------------------
(***************************************************************************)
(* handle_lists.  Two more classes of characters appear in its sentences:  *)
(* "-" (a list bullet, - or U+2022) and "1" (a digit).                     *)
(***************************************************************************)

\* t.lstrip(): the match of a leading \s*
LStrip(t) == IF t # << >> /\ t[1].c = " " THEN Tail(t) ELSE t

\* the length of what ([-•]|\d+\.) matches at the start of t, 0 when it
\* does not match
MarkerLen(t) ==
    IF t = << >> THEN 0
    ELSE IF t[1].c = "-" THEN 1
    ELSE IF t[1].c = "1" /\ Len(t) >= 2 /\ t[2].c = "." THEN t[1].n + 1
    ELSE 0

\* RE_LIST_MARKER.match(s)
RE_LIST_MARKER_match(s) == MarkerLen(LStrip(s)) # 0

\* RE_LIST_MARKER.sub('', s): the one match, at the start of s, is removed
RE_LIST_MARKER_sub(s) ==
    IF RE_LIST_MARKER_match(s)
    THEN LStrip(Drop(LStrip(s), MarkerLen(LStrip(s))))
    ELSE s

\* the first position from i on whose sentence has no list marker
RECURSIVE ListEnd(_, _)
ListEnd(ss, i) ==
    IF i <= Len(ss) /\ RE_LIST_MARKER_match(ss[i]) THEN ListEnd(ss, i + 1)
    ELSE i

\* " ".join(items), items being the sentences i .. j of ss with their
\* markers removed and stripped
RECURSIVE JoinItems(_, _, _)
JoinItems(ss, i, j) ==
    IF i > j THEN << >>
    ELSE IF i = j THEN Strip(RE_LIST_MARKER_sub(ss[i]))
    ELSE Cat(Cat(Strip(RE_LIST_MARKER_sub(ss[i])), << Run(" ", 1) >>),
             JoinItems(ss, i + 1, j))

\* `if not result and nospace_len < 300`, result having lost prev
DiscardsList_Never(result, nospace_len) == FALSE

DiscardsList(result, nospace_len) == result = << >> /\ nospace_len < 300

\* the while loop of handle_lists from position i on
RECURSIVE handle_lists_from(_, _, _)
handle_lists_from(ss, i, result) ==
    IF i > Len(ss) THEN result
    ELSE IF ~RE_LIST_MARKER_match(ss[i])
         THEN handle_lists_from(ss, i + 1, Append(result, ss[i]))
    ELSE LET j == ListEnd(ss, i)
             items == JoinItems(ss, i, j - 1)
             popped == IF result # << >>
                       THEN SubSeq(result, 1, Len(result) - 1)
                       ELSE result
             group == IF result # << >>
                      THEN Cat(Cat(result[Len(result)], << Run(" ", 1) >>),
                               items)
                      ELSE items
             nospace_len == NoSpaceLen(group)
             cut == Find(group, ".", TextLen(group) \div 2)
         IN  IF DiscardsList(popped, nospace_len)
             THEN handle_lists_from(ss, j, popped)
             ELSE IF nospace_len > 800 /\ cut # -1
             THEN handle_lists_from(ss, j,
                      popped \o << Strip(Take(group, cut + 1)),
                                   Strip(Drop(group, cut + 1)) >>)
             ELSE handle_lists_from(ss, j, Append(popped, group))

handle_lists(ss) == handle_lists_from(ss, 1, << >>)

\* The sentences handle_lists may be given, named by their non-space
\* length without the marker.
P100 == W3(40, 30, 29, ".")
B50 == << Run("-", 1), Run(" ", 1), Run("a", 49), Run(".", 1) >>
B250 == << Run("-", 1), Run(" ", 1), Run("a", 249), Run(".", 1) >>
\* a numbered item
N300 == << Run("1", 1), Run(".", 1), Run(" ", 1), Run("a", 299), Run(".", 1) >>
\* an item with a period at its end only
B850 == << Run("-", 1), Run(" ", 1), Run("a", 849), Run(".", 1) >>
\* an item with no period
B900Open == << Run("-", 1), Run(" ", 1), Run("a", 900) >>

ListSentenceSet == {P100, S700, B50, B250, N300, B850, B900Open}

ListSentenceLists == UNION {[1..n -> ListSentenceSet] : n \in 0..MaxSentences}

InitLists ==
    /\ hl_sentences \in ListSentenceLists
    /\ hl_result = << >>
    /\ hl_pc = "called"
    /\ entries = << >>
    /\ intro_range = NotCalled
    /\ review_range = NotCalled
    /\ NoParse
    /\ NoSplit
    /\ NoNorm
    /\ NoSection
    /\ NoBatch
    /\ NoNumbers
    /\ NoExtract
    /\ NoScan
    /\ NoWrite
    /\ NoBlock
    /\ NoReal

\* all_sents = handle_lists(all_sents)
HandleLists ==
    /\ hl_pc = "called"
    /\ hl_result' = handle_lists(hl_sentences)
    /\ hl_pc' = "done"
    /\ UNCHANGED <<hl_sentences, notLists>>

NextLists == HandleLists

SpecLists == InitLists /\ [][NextLists]_vars

-----------------------------------------------------------------------------
(* Claims about handle_lists, checked under SpecLists.                     *)

RECURSIVE TotalNoSpace(_)
\* the non-space characters of a list of texts
TotalNoSpace(ts) ==
    IF ts = << >> THEN 0 ELSE NoSpaceLen(ts[1]) + TotalNoSpace(Tail(ts))

\* the sentences as they would stand in the result: markers removed
WithoutMarkers(ss) == [k \in 1..Len(ss) |-> RE_LIST_MARKER_sub(ss[k])]

\* C12: when a paragraph precedes a run of bulleted sentences the run is
\* appended to it and the merged text remains in the result; a run is
\* discarded only when no paragraph precedes it and it is under 300
\* non-space characters, so the text of the preceding paragraph is never
\* lost with the list.  Given sentences that start with a paragraph, every
\* run has one before it and the result holds all their text.
C12_PrecedingParagraphKept ==
    (/\ hl_pc = "done"
     /\ hl_sentences # << >>
     /\ ~RE_LIST_MARKER_match(hl_sentences[1]))
        => TotalNoSpace(hl_result) = TotalNoSpace(WithoutMarkers(hl_sentences))

\* C13: a run of bulleted sentences under 300 non-space characters with no
\* paragraph before it is discarded entirely: the result is that of the
\* sentences after the run.
C13_ShortLeadingListDiscarded ==
    (/\ hl_pc = "done"
     /\ hl_sentences # << >>
     /\ RE_LIST_MARKER_match(hl_sentences[1])
     /\ NoSpaceLen(JoinItems(hl_sentences, 1,
                             ListEnd(hl_sentences, 1) - 1)) < 300)
        => hl_result =
               handle_lists(SubSeq(hl_sentences, ListEnd(hl_sentences, 1),
                                   Len(hl_sentences)))

\* a run of 250 non-space characters, alone, gives nothing
C13_Witness ==
    /\ hl_pc = "done"
    /\ hl_sentences = << B250 >>
    /\ hl_result = << >>


\* the characters of a sentence of the block loop, as far as handle_lists
\* looks at them: a list item begins with its marker and a space
SentText(sent) ==
    IF sent.first = "bullet"
    THEN << Run("-", 1), Run(" ", 1), Run("a", sent.total - 3), Run(".", 1) >>
    ELSE << Run("a", sent.total - 1), Run(".", 1) >>

SentTexts(ss) == [k \in 1..Len(ss) |-> SentText(ss[k])]

\* C28: every sentence the block loop of process_file hands to
\* handle_lists starts with an uppercase Cyrillic letter, none matches the
\* list-marker pattern, and handle_lists returns the list unchanged.
C28_ListBranchesUnreachable ==
    sect_pc = "done" =>
        /\ \A k \in 1..Len(all_sents) :
               /\ all_sents[k].first = "upper_cyrillic"
               /\ ~RE_LIST_MARKER_match(SentText(all_sents[k]))
        /\ handle_lists(SentTexts(all_sents)) = SentTexts(all_sents)

\* a block with a list item after a sentence: only the sentence is left
C28_Witness ==
    /\ sect_pc = "done"
    /\ blocks = << TextBlock(<<SentA, SentBullet>>, TRUE) >>
    /\ all_sents = <<SentA>>
-----------------------------------------------------------------------------
(***************************************************************************)
(* main and process_file.  A file of the input folder is what the two look *)
(* at: whether its name ends in .json, its size in bytes, whether          *)
(* json.load reads it, the metadata keys of its record and its sections,   *)
(* each section being the sentence list the block loop builds from it.     *)
(* Keys are written in Latin letters: "zagolovok" "заголовок", "god"       *)
(* "год", "tema" "тема", "kod_temy" "код_темы".                            *)
(***************************************************************************)
\* 1.5 * 1024 bytes
MIN_FILE_SIZE == 1536
MIN_PARAGRAPH_COUNT == 2
MIN_TRAILING_LEN == 200

\* the keys get_meta reads
MetaKeys(u) ==
    IF u = "spbu" THEN {"id", "zagolovok", "god", "tema"}
    ELSE {"zagolovok", "god", "tema", "kod_temy"}

S150 == W3(50, 50, 49, ".")

\* the sentence lists of a section
SecLong == <<S300, S700, S700>>
SecShortTail == <<S700, S700, S150>>
SecOneLeft == <<S700, S150>>
SecOverLong == <<S1300, S300>>

SectionSamples == {SecLong, SecShortTail, SecOneLeft, SecOverLong}

File(json_name, size, readable, keys, sections) ==
    [json_name |-> json_name, size |-> size, readable |-> readable,
     keys |-> keys, sections |-> sections]

\* the files the first stage writes for one university
WrittenFiles(u) ==
    {File(TRUE, MIN_FILE_SIZE, TRUE, MetaKeys(u), <<a>>) :
         a \in SectionSamples}
    \cup {File(TRUE, MIN_FILE_SIZE, TRUE, MetaKeys(u), <<a, b>>) :
              a \in SectionSamples, b \in SectionSamples}

\* other files the folder may hold
NotJson == File(FALSE, MIN_FILE_SIZE, TRUE, { }, << >>)
SmallFile == File(TRUE, MIN_FILE_SIZE - 1, TRUE, MetaKeys("spbu"), <<SecLong>>)
Unreadable == File(TRUE, MIN_FILE_SIZE, FALSE, { }, << >>)
MissingKey == File(TRUE, MIN_FILE_SIZE, TRUE, {"zagolovok", "god"}, <<SecLong>>)
OnlyMeta == File(TRUE, MIN_FILE_SIZE, TRUE, MetaKeys("spbu"), << >>)
OnlyTitle == File(TRUE, MIN_FILE_SIZE, TRUE, {"zagolovok"}, << >>)
\* the keys of both universities: one of them is not metadata
BothKeys ==
    File(TRUE, MIN_FILE_SIZE, TRUE, MetaKeys("spbu") \cup MetaKeys("hse"),
         <<SecLong>>)

FileSamples ==
    WrittenFiles("spbu") \cup
        {NotJson, SmallFile, Unreadable, MissingKey, OnlyMeta, OnlyTitle,
         BothKeys}

MaxFiles == 2

Batches == UNION {[1..n -> FileSamples] : n \in 0..MaxFiles}

\* get_meta raises KeyError
MetaMissing_Never(f, u) == FALSE

MetaMissing(f, u) == ~(MetaKeys(u) \subseteq f.keys)

\* the values under sec_keys = [k for k in data if k not in meta]: a
\* metadata key of the other university holds a string, whose characters
\* give no sentence
SecValues(f, u) ==
    [k \in 1..Cardinality(f.keys \ MetaKeys(u)) |-> << >>] \o f.sections

\* role = 'введение' if idx == 0 else 'обзор'
Role(idx) == IF idx = 1 THEN "intro" ELSE "review"

NoOut == [intro |-> None, review |-> None]

\* len(paras) < MIN_PARAGRAPH_COUNT
TooFewParagraphs_Never(paras) == FALSE

TooFewParagraphs(paras) == Len(paras) < MIN_PARAGRAPH_COUNT

\* the test of `while paras and len(paras[-1].replace(" ", "")) < ...`
TrailingShort(paras) ==
    paras # << >> /\ NoSpaceLen(paras[Len(paras)]) < MIN_TRAILING_LEN

InitBatch ==
    /\ files \in Batches
    /\ uni \in {"spbu", "hse"}
    /\ file_k = 1
    /\ file_pc = "main"
    /\ sec_idx = 0
    /\ out = NoOut
    /\ out_files = << >>
    /\ log = << >>
    /\ entries = << >>
    /\ intro_range = NotCalled
    /\ review_range = NotCalled
    /\ NoParse
    /\ NoSplit
    /\ NoNorm
    /\ NoSection
    /\ NoLists
    /\ NoNumbers
    /\ NoExtract
    /\ NoScan
    /\ NoWrite
    /\ NoBlock
    /\ NoReal

\* the file the loop of main is at
F == files[file_k]

\* main goes to the next file, with the line it printed for this one
LogAndNext(line) ==
    /\ log' = Append(log, [file |-> file_k, line |-> line])
    /\ file_k' = file_k + 1
    /\ file_pc' = "main"
    /\ sec_idx' = 0
    /\ out' = NoOut

\* `if not fname.lower().endswith('.json'): continue`
SkipFile ==
    /\ file_pc = "main"
    /\ file_k <= Len(files)
    /\ ~F.json_name
    /\ file_k' = file_k + 1
    /\ UNCHANGED <<files, uni, file_pc, sec_idx, out, out_files, log,
                   notBatch>>

\* process_file returns at once: the file is small, or it has no section
\* keys
ProcessFileReturns ==
    /\ file_pc = "main"
    /\ file_k <= Len(files)
    /\ F.json_name
    /\ \/ F.size < MIN_FILE_SIZE
       \/ /\ F.readable
          /\ ~MetaMissing(F, uni)
          /\ SecValues(F, uni) = << >>
    /\ LogAndNext("OK")
    /\ UNCHANGED <<files, uni, out_files, notBatch>>

\* json.load or get_meta raises; main catches the exception and prints it
ProcessFileRaises ==
    /\ file_pc = "main"
    /\ file_k <= Len(files)
    /\ F.json_name
    /\ F.size >= MIN_FILE_SIZE
    /\ ~F.readable \/ MetaMissing(F, uni)
    /\ LogAndNext("ERR")
    /\ UNCHANGED <<files, uni, out_files, notBatch>>

\* process_file reaches its loop over sec_keys
ProcessFileSections ==
    /\ file_pc = "main"
    /\ file_k <= Len(files)
    /\ F.json_name
    /\ F.size >= MIN_FILE_SIZE
    /\ F.readable
    /\ ~MetaMissing(F, uni)
    /\ SecValues(F, uni) # << >>
    /\ file_pc' = "section"
    /\ sec_idx' = 1
    /\ out' = NoOut
    /\ UNCHANGED <<files, uni, file_k, out_files, log, notBatch>>

\* all_sents = handle_lists(all_sents), and split_paragraphs is entered
StartSection ==
    /\ file_pc = "section"
    /\ sentences' = handle_lists(SecValues(F, uni)[sec_idx])
    /\ next_sentence' = 1
    /\ paragraphs' = << >>
    /\ buf' = << >>
    /\ buf_nospace' = 0
    /\ split_pc' = "loop"
    /\ file_pc' = "split"
    /\ UNCHANGED <<files, uni, file_k, sec_idx, out, out_files, log,
                   notBatchSplit>>

\* one turn of `while paras and len(paras[-1]...) < MIN_TRAILING_LEN`
TrimTrailing ==
    /\ file_pc = "split"
    /\ split_pc = "done"
    /\ TrailingShort(paragraphs)
    /\ paragraphs' = SubSeq(paragraphs, 1, Len(paragraphs) - 1)
    /\ UNCHANGED <<sentences, next_sentence, buf, buf_nospace, split_pc,
                   batchVars, notBatchSplit>>

\* split_paragraphs is left
LeaveSplit ==
    /\ sentences' = << >>
    /\ next_sentence' = 0
    /\ paragraphs' = << >>
    /\ buf' = << >>
    /\ buf_nospace' = 0
    /\ split_pc' = "idle"

\* `if len(paras) < MIN_PARAGRAPH_COUNT: return`
RejectSection ==
    /\ file_pc = "split"
    /\ split_pc = "done"
    /\ ~TrailingShort(paragraphs)
    /\ TooFewParagraphs(paragraphs)
    /\ LogAndNext("OK")
    /\ LeaveSplit
    /\ UNCHANGED <<files, uni, out_files, notBatchSplit>>

\* out[role] = paras, and the next section or the end of the loop
StoreSection ==
    /\ file_pc = "split"
    /\ split_pc = "done"
    /\ ~TrailingShort(paragraphs)
    /\ ~TooFewParagraphs(paragraphs)
    /\ out' = [out EXCEPT ![Role(sec_idx)] = Some(paragraphs)]
    /\ IF sec_idx < Len(SecValues(F, uni))
       THEN /\ sec_idx' = sec_idx + 1
            /\ file_pc' = "section"
       ELSE /\ file_pc' = "write"
            /\ UNCHANGED sec_idx
    /\ LeaveSplit
    /\ UNCHANGED <<files, uni, file_k, out_files, log, notBatchSplit>>

\* json.dump(out, f), and main prints [OK]
WriteOutput ==
    /\ file_pc = "write"
    /\ out_files' = Append(out_files, [file |-> file_k, out |-> out])
    /\ LogAndNext("OK")
    /\ UNCHANGED <<files, uni, notBatch>>

\* os.listdir has no more names
BatchDone ==
    /\ file_pc = "main"
    /\ file_k > Len(files)
    /\ file_pc' = "done"
    /\ UNCHANGED <<files, uni, file_k, sec_idx, out, out_files, log,
                   notBatch>>

NextBatch ==
    \/ SkipFile
    \/ ProcessFileReturns
    \/ ProcessFileRaises
    \/ ProcessFileSections
    \/ StartSection
    \/ SplitLongSentence
    \/ AddToBuffer
    \/ FlushEarly
    \/ FlushRest
    \/ TrimTrailing
    \/ RejectSection
    \/ StoreSection
    \/ WriteOutput
    \/ BatchDone

SpecBatch == InitBatch /\ [][NextBatch]_vars

-----------------------------------------------------------------------------
(* Claims about process_file and main, checked under SpecBatch.            *)

\* a section as it stands in a written record
StoredSection(o) ==
    /\ o # None
    /\ Len(Val(o)) >= 2
    /\ NoSpaceLen(Val(o)[Len(Val(o))]) >= 200

\* C11: process_file writes an output record only if every section of the
\* input has at least 2 paragraphs left once the paragraphs under 200
\* non-space characters were removed from the end; a section left with
\* exactly 1 paragraph (700 and 150 non-space characters) keeps the whole
\* document from being written; the last paragraph of every written section
\* has at least 200 non-space characters.
C11_WrittenSectionsTrimmed ==
    \A w \in 1..Len(out_files) :
        LET secs == SecValues(files[out_files[w].file], uni)
        IN  /\ Len(secs) >= 1
            /\ StoredSection(out_files[w].out.intro)
            /\ Len(secs) >= 2 => StoredSection(out_files[w].out.review)
            /\ \A k \in 1..Len(secs) : secs[k] # SecOneLeft

\* a record whose section lost its short last paragraph was written, and
\* the next file is left with exactly 1 paragraph and is about to be dropped
C11_Witness ==
    /\ Len(out_files) = 1
    /\ files[1].sections = <<SecShortTail>>
    /\ Len(Val(out_files[1].out.intro)) = 2
    /\ file_k = 2
    /\ file_pc = "split"
    /\ split_pc = "done"
    /\ Len(paragraphs) = 1
    /\ ~TrailingShort(paragraphs)

\* the positions of the .json files of the folder
JsonFiles == {k \in 1..Len(files) : files[k].json_name}

\* main printed one line for each .json file, in the order of the folder
EveryJsonFileLogged ==
    /\ {log[n].file : n \in 1..Len(log)} = JsonFiles
    /\ \A n \in 1..(Len(log) - 1) : log[n].file < log[n + 1].file

\* file k was not written
NotWritten(k) == \A w \in 1..Len(out_files) : out_files[w].file # k

\* every key of the record is a metadata key
NoSectionKeys(f) == f.keys \subseteq MetaKeys(uni) /\ f.sections = << >>

\* process_file raises on file f
Raises(f) ==
    /\ f.size >= MIN_FILE_SIZE
    /\ ~f.readable \/ ~(MetaKeys(uni) \subseteq f.keys)

\* C20 as stated: no input record aborts the batch: an exception raised for
\* one file is logged and every other .json file is still processed; and
\* process_file returns without raising and without writing when the file
\* is under the minimum size or has no section keys.
C20_NoSectionKeysIsNoOp ==
    file_pc = "done" =>
        /\ EveryJsonFileLogged
        /\ \A n \in 1..Len(log) :
               LET f == files[log[n].file]
               IN  /\ Raises(f) => log[n].line = "ERR"
                   /\ (f.size < MIN_FILE_SIZE \/ (f.readable /\ NoSectionKeys(f)))
                          => log[n].line = "OK" /\ NotWritten(log[n].file)

\* C20, amended: the same, process_file returning without raising and
\* without writing when the file is under the minimum size or, being
\* readable and holding every metadata key, has no section keys.
C20_BatchNeverAborts ==
    file_pc = "done" =>
        /\ EveryJsonFileLogged
        /\ \A n \in 1..Len(log) :
               LET f == files[log[n].file]
               IN  /\ Raises(f) => log[n].line = "ERR"
                   /\ (\/ f.size < MIN_FILE_SIZE
                       \/ /\ f.readable
                          /\ MetaKeys(uni) \subseteq f.keys
                          /\ NoSectionKeys(f))
                          => log[n].line = "OK" /\ NotWritten(log[n].file)

\* an unreadable file was logged and the file after it was written
C20_Witness ==
    /\ file_pc = "done"
    /\ Len(files) = 2
    /\ files[1] = Unreadable
    /\ Len(log) = 2
    /\ log[1].line = "ERR"
    /\ log[2].line = "OK"
    /\ ~NotWritten(2)

-----------------------------------------------------------------------------
(***************************************************************************)
(* get_real_content_page on its own: the documents differ in the page      *)
(* number candidates of the TOC page and of the page after it.             *)
(***************************************************************************)
CandidateNumbers == {3, 4, 7, 9}

MaxCandidates == 2

CandidateLists ==
    UNION {[1..n -> CandidateNumbers] : n \in 0..MaxCandidates}

NumberDocs ==
    {[toc_idx |-> Some(1), toc_entries |-> << >>,
      numbers |-> Numbers(cont, next),
      pages |-> [k \in 1..NumPages |-> {PlainText}]] :
        cont \in CandidateLists,
        next \in {None} \cup {Some(c) : c \in CandidateLists}}

InitNumbers ==
    /\ doc \in NumberDocs
    /\ real_content_page = << >>
    /\ num_pc = "called"
    /\ pc = "idle"
    /\ calls = << >>
    /\ error = None
    /\ flags = [content |-> TRUE, review |-> TRUE]
    /\ intro_idx = [beg |-> None, end |-> None]
    /\ review_idx = [beg |-> None, end |-> None]
    /\ page_lists = [intro |-> None, review |-> None]
    /\ parsed = [intro |-> None, review |-> None]
    /\ entries = << >>
    /\ intro_range = NotCalled
    /\ review_range = NotCalled
    /\ NoSplit
    /\ NoNorm
    /\ NoSection
    /\ NoLists
    /\ NoBatch
    /\ NoExtract
    /\ NoScan
    /\ NoWrite
    /\ NoBlock
    /\ NoReal

\* the call get_real_content_page(doc)
GetRealContentPage ==
    /\ num_pc = "called"
    /\ real_content_page' = get_real_content_page(doc)
    /\ num_pc' = "done"
    /\ UNCHANGED notNumbers

NextNumbers == GetRealContentPage

SpecNumbers == InitNumbers /\ [][NextNumbers]_vars

\* the candidates of the TOC page and of the page after it (none when
\* there is no such page)
ContCandidates == doc.numbers.cont
NextCandidates ==
    IF IsNone(doc.numbers.next) THEN << >> ELSE Val(doc.numbers.next)

\* a number was returned
ReturnedNumber ==
    real_content_page.status = "ok" /\ ~IsNone(real_content_page.value)

\* C18: exactly one candidate on the TOC page gives that candidate; none on
\* the TOC page gives a candidate of the next page minus 1, and no number
\* when the next page has none either; with more than one candidate on the
\* TOC page the number returned is a TOC page candidate at distance 1 from
\* a candidate of the next page, and no number is returned when there is
\* no such pair.
C18_ContentPageNumber ==
    num_pc = "done" =>
        /\ Len(ContCandidates) = 1 =>
               real_content_page = Ok(Some(ContCandidates[1]))
        /\ (Len(ContCandidates) = 0 /\ ReturnedNumber) =>
               \E j \in 1..Len(NextCandidates) :
                   Val(real_content_page.value) = NextCandidates[j] - 1
        /\ (Len(ContCandidates) = 0 /\ NextCandidates = << >>) =>
               ~ReturnedNumber
        /\ (Len(ContCandidates) > 1 /\ ReturnedNumber) =>
               \E i \in Paired(ContCandidates, NextCandidates) :
                   Val(real_content_page.value) = ContCandidates[i]
        /\ (Len(ContCandidates) > 1
                /\ Paired(ContCandidates, NextCandidates) = { }) =>
               ~ReturnedNumber

-----------------------------------------------------------------------------
(***************************************************************************)
(* extract_paragraphs_from_pages (parser_pdf.py): the two noise filters    *)
(* and the reassembly of paragraphs, called with flag_content = True.  A   *)
(* block's text is a sequence of characters, as in the normalizer above,   *)
(* with these characters besides:                                          *)
(*   "r" "s"  the lowercase letters U+0440 and U+0441 ("r" "i" "s" "." is  *)
(*            the figure token)            "R"  the uppercase U+0420       *)
(*   "z"      a Latin letter               "bullet"  U+2022                *)
(* A block is [type, lines, size, font, bbox]: every line holds one span,  *)
(* all spans of a block have the block's size and font.  bbox is           *)
(* <<x0, y0, x1, y1>>, x in points and y in tenths of a point, so that the *)
(* int() of the gap computation is the division by ten.                    *)
(***************************************************************************)
CyrillicLetters == {"i", "r", "s", "R"}       \* "А" <= ch <= "я" or Ёё
Letters == CyrillicLetters \cup {"z"}         \* ch.isalpha()
Terminals == {".", "!", "?"}                  \* [\.!?]
Ris == <<"r", "i", "s", ".">>

\* str.lower()
str_lower(t) == [k \in 1..Len(t) |-> IF t[k] = "R" THEN "r" ELSE t[k]]

\* sub in t
Contains(t, sub) ==
    \E k \in 1..(Len(t) - Len(sub) + 1) : SubSeq(t, k, k + Len(sub) - 1) = sub

\* t.startswith(pre), t.endswith(c) for one character c
StartsWith(t, pre) == Len(t) >= Len(pre) /\ SubSeq(t, 1, Len(pre)) = pre
EndsWith(t, c) == t # << >> /\ t[Len(t)] = c

\* str.lstrip()
str_lstrip(t) == SubSeq(t, SpanEnd(t, 1, WhiteSpace), Len(t))

\* t.count(c)
Count(t, c) == Cardinality({k \in 1..Len(t) : t[k] = c})

\* t.split("\n", 1)[0] and t.split("\n")[-1]
BeforeFirstNl(t) ==
    LET nls == {k \in 1..Len(t) : t[k] = "nl"}
    IN  IF nls = {} THEN t
        ELSE SubSeq(t, 1, (CHOOSE k \in nls : \A m \in nls : k <= m) - 1)
AfterLastNl(t) ==
    LET nls == {k \in 1..Len(t) : t[k] = "nl"}
    IN  IF nls = {} THEN t
        ELSE SubSeq(t, (CHOOSE k \in nls : \A m \in nls : k >= m) + 1, Len(t))

\* sentence_endings.search(t): $ matches at the end and before a last newline
sentence_endings_search(t) ==
    \/ t # << >> /\ t[Len(t)] \in Terminals
    \/ Len(t) > 1 /\ t[Len(t)] = "nl" /\ t[Len(t) - 1] \in Terminals

\* LIST_START_PATTERN.match(line): ^\s*(?:\d+[\)]|[-bullet dash])
LIST_START_PATTERN_match(line) ==
    LET i == SpanEnd(line, 1, WhiteSpace)
        j == SpanEnd(line, i, Digit)
    IN  /\ i <= Len(line)
        /\ \/ line[i] \in {"-", "bullet"}
           \/ j > i /\ j <= Len(line) /\ line[j] = ")"

\* "\n".join(parts)
RECURSIVE JoinLines(_)
JoinLines(parts) ==
    IF parts = << >> THEN << >>
    ELSE IF Len(parts) = 1 THEN parts[1]
    ELSE parts[1] \o <<"nl">> \o JoinLines(Tail(parts))

\* a and b with nothing between them
WithNothing(a, b) == a \o b

\* f"{a}\n{b}"
WithNewline(a, b) == a \o <<"nl">> \o b

\* total_text of a block: its stripped lines joined by newlines
total_text(b) == JoinLines([k \in 1..Len(b.lines) |-> str_strip(b.lines[k])])

\* text.strip().endswith('-')
EndsWithHyphen(t) == EndsWith(str_strip(t), "-")

\* len(total_text.replace("\n", "").strip())
PlainLen(t) == Len(str_strip(str_replace(t, <<"nl">>, << >>)))

MIN_BLOCK_CHARS == 15
CAPTION_MAX_CHARS == 60
FONT_SIZE_DIFF_THRESHOLD == 1
MIN_BLOCK_WIDTH_RATIO == [num |-> 1, den |-> 2]
CENTER_TOLERANCE_RATIO == [num |-> 7, den |-> 10]
MIN_CYRILLIC_RATIO == [num |-> 1, den |-> 2]
GAP_MULTIPLIER == [num |-> 5, den |-> 2]

Abs(n) == IF n < 0 THEN -n ELSE n

\* the centre is nearer to the page centre than a quarter of the width
is_centered_Quarter(bbox, page_width) ==
    2 * Abs(bbox[1] + bbox[3] - page_width) < page_width

\* abs(block_center_x - page_center_x) < CENTER_TOLERANCE_RATIO * page_width
is_centered(bbox, page_width) ==
    CENTER_TOLERANCE_RATIO.den * Abs(bbox[1] + bbox[3] - page_width)
        < 2 * CENTER_TOLERANCE_RATIO.num * page_width

\* Counter(values).most_common(1)[0][0]: of the most frequent values the
\* one met first
most_common(values) ==
    LET cnt(v) == Cardinality({k \in 1..Len(values) : values[k] = v})
        first(v) == CHOOSE k \in 1..Len(values) :
                        values[k] = v /\ \A m \in 1..(k - 1) : values[m] # v
    IN  CHOOSE v \in {values[k] : k \in 1..Len(values)} :
            \A w \in {values[k] : k \in 1..Len(values)} :
                \/ cnt(v) > cnt(w)
                \/ cnt(v) = cnt(w) /\ first(v) <= first(w)

\* the spans of the text blocks of a page: one [size, font] per line
RECURSIVE PageSpans(_)
PageSpans(bs) ==
    IF bs = << >> THEN << >>
    ELSE (IF bs[1].type # 0 THEN << >>
          ELSE [k \in 1..Len(bs[1].lines) |->
                    [size |-> bs[1].size, font |-> bs[1].font]])
         \o PageSpans(Tail(bs))

dominant_font_size(page) ==
    LET spans == PageSpans(page.blocks)
    IN  most_common([k \in 1..Len(spans) |-> spans[k].size])

dominant_font_name(page) ==
    LET spans == PageSpans(page.blocks)
    IN  most_common([k \in 1..Len(spans) |-> spans[k].font])

\* lines 500-508: a block after a hyphen-terminated one, near the left
\* margin (x0 < 90) and without the figure token, is taken at once
ContinuationExempt(b, flag) ==
    /\ flag
    /\ b.bbox[1] < 90
    /\ ~Contains(str_lower(total_text(b)), Ris)

\* lines 510-557: one of the first filters drops the block
FirstFilterDrops(b, page) ==
    LET t == total_text(b)
        chars == {k \in 1..Len(t) : t[k] \in Letters}
        cyrillic == {k \in chars : t[k] \in CyrillicLetters}
        first_line == str_lstrip(BeforeFirstNl(t))
        last_line == str_strip(AfterLastNl(t))
        single_bracket == Count(t, "(") + Count(t, ")") = 1
        spared == \/ LIST_START_PATTERN_match(first_line)
                  \/ EndsWith(last_line, ":")
                  \/ single_bracket
    IN  \/ t = << >>
        \/ /\ chars # {}
           /\ MIN_CYRILLIC_RATIO.den * Cardinality(cyrillic)
                  < MIN_CYRILLIC_RATIO.num * Cardinality(chars)
        \/ PlainLen(t) < MIN_BLOCK_CHARS /\ ~spared
        \/ StartsWith(first_line, Ris)
        \/ /\ \/ Abs(b.size - dominant_font_size(page))
                     > FONT_SIZE_DIFF_THRESHOLD
              \/ b.font # dominant_font_name(page)
           /\ ~LIST_START_PATTERN_match(first_line)
        \/ /\ MIN_BLOCK_WIDTH_RATIO.den * (b.bbox[3] - b.bbox[1])
                  < MIN_BLOCK_WIDTH_RATIO.num * page.width
           /\ ~spared

\* lines 465-564: the first filter over the blocks of a page from block k
\* on; gives prelim_blocks and the flag prev_ended_with_hyphen after it
RECURSIVE first_filter(_, _, _, _)
first_filter(page, k, kept, flag) ==
    IF k > Len(page.blocks) THEN [blocks |-> kept, hyphen |-> flag]
    ELSE LET b == page.blocks[k]
             entry == [bbox |-> b.bbox, text |-> total_text(b)]
         IN  IF b.type # 0 THEN first_filter(page, k + 1, kept, flag)
             ELSE IF ContinuationExempt(b, flag) \/ ~FirstFilterDrops(b, page)
             THEN first_filter(page, k + 1, Append(kept, entry),
                               EndsWithHyphen(entry.text))
             ELSE first_filter(page, k + 1, kept, flag)

\* sorted(prelim_blocks, key=lambda b: b["bbox"][1]): stable
RECURSIVE sorted_prelim(_)
sorted_prelim(bs) ==
    IF bs = << >> THEN << >>
    ELSE LET front == sorted_prelim(SubSeq(bs, 1, Len(bs) - 1))
             b == bs[Len(bs)]
             p == Cardinality({k \in 1..Len(front) :
                                   front[k].bbox[2] <= b.bbox[2]})
         IN  SubSeq(front, 1, p) \o <<b>> \o SubSeq(front, p + 1, Len(front))

NonNeg(n) == IF n < 0 THEN 0 ELSE n

\* gaps: max(0, int(curr_y0) - int(prev_y1)) of neighbours, in points
gaps(sp) ==
    [i \in 1..(Len(sp) - 1) |->
        NonNeg((sp[i + 1].bbox[2] \div 10) - (sp[i].bbox[4] \div 10))]

\* the k-th smallest of gs
KthSmallest(gs, k) ==
    CHOOSE v \in {gs[i] : i \in 1..Len(gs)} :
        /\ Cardinality({i \in 1..Len(gs) : gs[i] < v}) < k
        /\ k <= Cardinality({i \in 1..Len(gs) : gs[i] <= v})

\* twice median(gaps) if gaps else 0
median_gap_twice(gs) ==
    IF gs = << >> THEN 0
    ELSE IF Len(gs) % 2 = 1 THEN 2 * KthSmallest(gs, (Len(gs) + 1) \div 2)
    ELSE KthSmallest(gs, Len(gs) \div 2) + KthSmallest(gs, Len(gs) \div 2 + 1)

\* re.search(r"\d+\.", text) and not text.strip().endswith(".")
has_num_dot_inside(t) ==
    /\ \E k \in 1..(Len(t) - 1) : t[k] \in Digit /\ t[k + 1] = "."
    /\ ~EndsWith(str_strip(t), ".")

\* lines 604-608: block i of the sorted blocks is taken for a caption
IsCaption(sp, i, page_width) ==
    LET t == sp[i].text
        gap_to_prev == IF i > 1
                       THEN NonNeg(sp[i].bbox[2] - sp[i - 1].bbox[4])
                       ELSE 0
    IN  /\ Count(t, "nl") = 0
        /\ PlainLen(t) <= CAPTION_MAX_CHARS
        /\ is_centered(sp[i].bbox, page_width)
        /\ 2 * GAP_MULTIPLIER.den * gap_to_prev
               > 10 * GAP_MULTIPLIER.num * median_gap_twice(gaps(sp))
        /\ has_num_dot_inside(t)

\* lines 579-611: the sorted blocks from block i on that are no captions
RECURSIVE caption_filter(_, _, _)
caption_filter(sp, i, page_width) ==
    IF i > Len(sp) THEN << >>
    ELSE (IF IsCaption(sp, i, page_width) THEN << >> ELSE <<sp[i]>>)
         \o caption_filter(sp, i + 1, page_width)

(***************************************************************************)
(* The pages given to extract_paragraphs_from_pages.  Pages are 600 points *)
(* wide; a line is 14 points high; body text is 12 point Times between     *)
(* x = 70 and x = 530.                                                     *)
(***************************************************************************)
Word(n) == [k \in 1..n |-> "i"]

PdfBlock(lines, x0, x1) ==
    [type |-> 0, lines |-> lines, size |-> 12, font |-> "Times",
     x0 |-> x0, x1 |-> x1]

\* the block b with its top edge at y0
Put(b, y0) ==
    [type |-> b.type, lines |-> b.lines, size |-> b.size, font |-> b.font,
     bbox |-> <<b.x0, y0, b.x1, y0 + 140 * Len(b.lines)>>]

PdfPage(items) ==
    [width |-> 600,
     blocks |-> [k \in 1..Len(items) |-> Put(items[k][1], items[k][2])]]

Body == PdfBlock(<<Word(20) \o <<".">>>>, 70, 530)
Open == PdfBlock(<<Word(20)>>, 70, 530)
Hyph == PdfBlock(<<Word(15) \o <<"-">>>>, 70, 530)
ContText == Word(8) \o <<" ">> \o Word(6) \o <<".">>
Cont == PdfBlock(<<ContText>>, 70, 530)
ContFar == PdfBlock(<<ContText>>, 500, 1000)
Bullet == PdfBlock(<<<<"-", " ">> \o Word(20)>>, 70, 530)
BulletFar == PdfBlock(<<<<"-", " ">> \o Word(20)>>, 500, 1000)
Caption == PdfBlock(<<Word(5) \o <<" ", "1", ".", "1", " ">> \o Word(8)>>,
                    70, 530)
FigLow == PdfBlock(<<Ris \o <<" ", "1", " ">> \o Word(12)>>, 70, 530)
Fig == PdfBlock(<<<<"R", "i", "s", ".", " ", "1", " ">> \o Word(12)>>,
                70, 530)
Latin == PdfBlock(<<[k \in 1..20 |-> "z"] \o <<".">>>>, 70, 530)
Short == PdfBlock(<<Word(5) \o <<".">>>>, 70, 530)
Blank == PdfBlock(<<<<" ">>>>, 70, 530)
Heading == [PdfBlock(<<Word(20)>>, 70, 530) EXCEPT !.size = 16]
TwoLine == PdfBlock(<<Word(16), Word(10) \o <<".">>>>, 70, 530)
Image == [type |-> 1, lines |-> << >>, size |-> 0, font |-> "",
          x0 |-> 70, x1 |-> 530]

PageSamples ==
    {PdfPage(<<<<Body, 700>>>>),
     PdfPage(<<<<Open, 700>>>>),
     PdfPage(<<<<Body, 700>>, <<Hyph, 900>>>>),
     PdfPage(<<<<Cont, 700>>>>),
     PdfPage(<<<<ContFar, 700>>>>),
     PdfPage(<<<<Open, 700>>, <<Bullet, 900>>>>),
     PdfPage(<<<<Hyph, 700>>, <<ContFar, 900>>, <<Bullet, 1100>>>>),
     PdfPage(<<<<Image, 700>>>>),
     PdfPage(<<<<Latin, 700>>>>),
     PdfPage(<<<<Hyph, 700>>, <<Blank, 900>>>>),
     PdfPage(<<<<Body, 700>>, <<Body, 900>>, <<Hyph, 1100>>,
               <<Caption, 1800>>>>),
     PdfPage(<<<<Hyph, 700>>, <<Caption, 845>>>>),
     PdfPage(<<<<Hyph, 700>>, <<Short, 900>>>>),
     PdfPage(<<<<Hyph, 700>>, <<FigLow, 900>>, <<Fig, 1100>>>>),
     PdfPage(<<<<Heading, 700>>, <<Body, 900>>, <<Body, 1100>>>>),
     PdfPage(<<<<TwoLine, 700>>>>),
     PdfPage(<<<<Cont, 900>>, <<Hyph, 700>>>>),
     PdfPage(<<<<Short, 700>>>>),
     PdfPage(<<<<Hyph, 700>>, <<BulletFar, 900>>>>)}

MaxPdfPages == 2

PdfDocs == UNION {[1..n -> PageSamples] : n \in 0..MaxPdfPages}

InitExtract ==
    /\ pdf_pages \in PdfDocs
    /\ page_k = 1
    /\ prelim_blocks = << >>
    /\ filtered_blocks = << >>
    /\ blk_k = 0
    /\ temp_para = << >>
    /\ page_paragraphs = << >>
    /\ carryover = << >>
    /\ prev_ended_with_hyphen = FALSE
    /\ pdf_paragraphs = << >>
    /\ ex_pc = "page"
    /\ entries = << >>
    /\ intro_range = NotCalled
    /\ review_range = NotCalled
    /\ NoParse
    /\ NoSplit
    /\ NoNorm
    /\ NoSection
    /\ NoLists
    /\ NoBatch
    /\ NoNumbers
    /\ NoScan
    /\ NoWrite
    /\ NoBlock
    /\ NoReal

\* the page the loop is at, and what the first filter keeps of it
ThisPage == pdf_pages[page_k]
Prelim == first_filter(ThisPage, 1, << >>, prev_ended_with_hyphen)

\* lines 436-452: a page without a span of text is passed over
SkipPageWithoutText ==
    /\ ex_pc = "page"
    /\ page_k <= Len(pdf_pages)
    /\ PageSpans(ThisPage.blocks) = << >>
    /\ page_k' = page_k + 1
    /\ UNCHANGED <<pdf_pages, prelim_blocks, filtered_blocks, blk_k,
                   temp_para, page_paragraphs, carryover,
                   prev_ended_with_hyphen, pdf_paragraphs, ex_pc>>
    /\ UNCHANGED notExtract

\* lines 464-567: the first filter keeps no block of the page
SkipPageWithoutBlocks ==
    /\ ex_pc = "page"
    /\ page_k <= Len(pdf_pages)
    /\ PageSpans(ThisPage.blocks) # << >>
    /\ Prelim.blocks = << >>
    /\ prelim_blocks' = << >>
    /\ prev_ended_with_hyphen' = Prelim.hyphen
    /\ page_k' = page_k + 1
    /\ UNCHANGED <<pdf_pages, filtered_blocks, blk_k, temp_para,
                   page_paragraphs, carryover, pdf_paragraphs, ex_pc>>
    /\ UNCHANGED notExtract

\* lines 464-617: both filters, then the reassembly starts from carryover
FilterBlocks ==
    /\ ex_pc = "page"
    /\ page_k <= Len(pdf_pages)
    /\ PageSpans(ThisPage.blocks) # << >>
    /\ Prelim.blocks # << >>
    /\ prelim_blocks' = Prelim.blocks
    /\ filtered_blocks' =
           caption_filter(sorted_prelim(Prelim.blocks), 1, ThisPage.width)
    /\ page_paragraphs' = << >>
    /\ temp_para' = carryover
    /\ prev_ended_with_hyphen' = FALSE
    /\ blk_k' = 1
    /\ ex_pc' = "blocks"
    /\ UNCHANGED <<pdf_pages, page_k, carryover, pdf_paragraphs>>
    /\ UNCHANGED notExtract

\* the block the reassembly loop is at
AtBlock == ex_pc = "blocks" /\ blk_k <= Len(filtered_blocks)
blk_text == filtered_blocks[blk_k].text
Continues ==
    /\ prev_ended_with_hyphen
    /\ ~is_centered(filtered_blocks[blk_k].bbox, ThisPage.width)
\* no block is taken for a bullet block
IsBullet_Never == FALSE

\* lines 650-651
IsBullet ==
    LET first_line == str_lstrip(BeforeFirstNl(blk_text))
    IN  StartsWith(first_line, <<"-">>) \/ StartsWith(first_line, <<"bullet">>)
\* the block alone, the pending paragraph forgotten
candidate_WithoutPending == blk_text

\* lines 661-664, 638-641
candidate ==
    IF temp_para # << >> THEN WithNewline(temp_para, blk_text) ELSE blk_text

\* lines 637-644: after a hyphen a block that is not centered joins the
\* pending paragraph whole
AppendContinuation ==
    /\ AtBlock
    /\ Continues
    /\ temp_para' = candidate
    /\ prev_ended_with_hyphen' = EndsWithHyphen(blk_text)
    /\ blk_k' = blk_k + 1
    /\ UNCHANGED <<pdf_pages, page_k, prelim_blocks, filtered_blocks,
                   page_paragraphs, carryover, pdf_paragraphs, ex_pc>>
    /\ UNCHANGED notExtract

\* lines 645-646
SkipEmptyBlock ==
    /\ AtBlock
    /\ ~Continues
    /\ blk_text = << >>
    /\ blk_k' = blk_k + 1
    /\ UNCHANGED <<pdf_pages, page_k, prelim_blocks, filtered_blocks,
                   temp_para, page_paragraphs, carryover,
                   prev_ended_with_hyphen, pdf_paragraphs, ex_pc>>
    /\ UNCHANGED notExtract

\* lines 650-658: a bullet block is a paragraph of its own, after the
\* pending paragraph if that one is complete
BulletParagraph ==
    /\ AtBlock
    /\ ~Continues
    /\ blk_text # << >>
    /\ IsBullet
    /\ IF temp_para # << >> /\ sentence_endings_search(temp_para)
       THEN /\ page_paragraphs' = page_paragraphs \o <<temp_para, blk_text>>
            /\ temp_para' = << >>
       ELSE /\ page_paragraphs' = Append(page_paragraphs, blk_text)
            /\ temp_para' = temp_para
    /\ blk_k' = blk_k + 1
    /\ UNCHANGED <<pdf_pages, page_k, prelim_blocks, filtered_blocks,
                   carryover, prev_ended_with_hyphen, pdf_paragraphs, ex_pc>>
    /\ UNCHANGED notExtract

\* lines 661-671, 675: the pending paragraph with this block is complete
CompleteParagraph ==
    /\ AtBlock
    /\ ~Continues
    /\ blk_text # << >>
    /\ ~IsBullet
    /\ sentence_endings_search(str_strip(AfterLastNl(candidate)))
    /\ page_paragraphs' = Append(page_paragraphs, candidate)
    /\ temp_para' = << >>
    /\ prev_ended_with_hyphen' = EndsWithHyphen(blk_text)
    /\ blk_k' = blk_k + 1
    /\ UNCHANGED <<pdf_pages, page_k, prelim_blocks, filtered_blocks,
                   carryover, pdf_paragraphs, ex_pc>>
    /\ UNCHANGED notExtract

\* lines 661-668, 672-675: it is not, and stays pending
KeepPending ==
    /\ AtBlock
    /\ ~Continues
    /\ blk_text # << >>
    /\ ~IsBullet
    /\ ~sentence_endings_search(str_strip(AfterLastNl(candidate)))
    /\ temp_para' = candidate
    /\ prev_ended_with_hyphen' = EndsWithHyphen(blk_text)
    /\ blk_k' = blk_k + 1
    /\ UNCHANGED <<pdf_pages, page_k, prelim_blocks, filtered_blocks,
                   page_paragraphs, carryover, pdf_paragraphs, ex_pc>>
    /\ UNCHANGED notExtract

\* lines 677-681: the page is over
EndPage ==
    /\ ex_pc = "blocks"
    /\ blk_k > Len(filtered_blocks)
    /\ carryover' = temp_para
    /\ pdf_paragraphs' = pdf_paragraphs \o page_paragraphs
    /\ page_k' = page_k + 1
    /\ ex_pc' = "page"
    /\ UNCHANGED <<pdf_pages, prelim_blocks, filtered_blocks, blk_k,
                   temp_para, page_paragraphs, prev_ended_with_hyphen>>
    /\ UNCHANGED notExtract

\* lines 683-687: after the last page
ReturnParagraphs ==
    /\ ex_pc = "page"
    /\ page_k > Len(pdf_pages)
    /\ pdf_paragraphs' = IF carryover # << >>
                         THEN Append(pdf_paragraphs, carryover)
                         ELSE pdf_paragraphs
    /\ ex_pc' = "done"
    /\ UNCHANGED <<pdf_pages, page_k, prelim_blocks, filtered_blocks, blk_k,
                   temp_para, page_paragraphs, carryover,
                   prev_ended_with_hyphen>>
    /\ UNCHANGED notExtract

NextExtract ==
    \/ SkipPageWithoutText
    \/ SkipPageWithoutBlocks
    \/ FilterBlocks
    \/ AppendContinuation
    \/ SkipEmptyBlock
    \/ BulletParagraph
    \/ CompleteParagraph
    \/ KeepPending
    \/ EndPage
    \/ ReturnParagraphs

SpecExtract == InitExtract /\ [][NextExtract]_vars

\* C14: every paragraph extract_paragraphs_from_pages returns ends with a
\* period, a question mark or an exclamation mark.
C14_ParagraphsEndTerminal ==
    ex_pc = "done" =>
        \A k \in 1..Len(pdf_paragraphs) :
            pdf_paragraphs[k] # << >>
                /\ pdf_paragraphs[k][Len(pdf_paragraphs[k])] \in Terminals

\* the non-empty lines of a text, and of a list of texts
RECURSIVE Lines(_)
Lines(t) ==
    LET first == BeforeFirstNl(t)
        rest == IF Len(first) = Len(t) THEN << >>
                ELSE Lines(SubSeq(t, Len(first) + 2, Len(t)))
    IN  (IF first = << >> THEN << >> ELSE <<first>>) \o rest

RECURSIVE LinesOfAll(_)
LinesOfAll(ts) ==
    IF ts = << >> THEN << >> ELSE Lines(ts[1]) \o LinesOfAll(Tail(ts))

\* a and b hold the same lines, each as many times
SameLines(a, b) ==
    \A l \in {a[k] : k \in 1..Len(a)} \cup {b[k] : k \in 1..Len(b)} :
        Cardinality({k \in 1..Len(a) : a[k] = l})
            = Cardinality({k \in 1..Len(b) : b[k] = l})

\* the lines the function holds: returned, completed on this page, pending
HeldLinesOf(at, returned, completed, pending, carried) ==
    LinesOfAll(returned)
        \o (IF at = "blocks" THEN LinesOfAll(completed) \o Lines(pending)
            ELSE IF at = "page" THEN Lines(carried) ELSE << >>)

HeldLines ==
    HeldLinesOf(ex_pc, pdf_paragraphs, page_paragraphs, temp_para, carryover)

FirstPageBlocks ==
    caption_filter(
        sorted_prelim(first_filter(pdf_pages[1], 1, << >>, FALSE).blocks),
        1, pdf_pages[1].width)

\* Example 2: the last surviving block of a page ends with a hyphen and
\* the next page starts with the block ContText, not centered
Example2 ==
    /\ Len(pdf_pages) = 2
    /\ FirstPageBlocks # << >>
    /\ FirstPageBlocks[Len(FirstPageBlocks)].text = Hyph.lines[1]
    /\ Len(pdf_pages[2].blocks) = 1
    /\ total_text(pdf_pages[2].blocks[1]) = ContText
    /\ ~is_centered(pdf_pages[2].blocks[1].bbox, pdf_pages[2].width)

\* the paragraphs that hold the text sub
Holding(sub) ==
    {k \in 1..Len(pdf_paragraphs) : Contains(pdf_paragraphs[k], sub)}

\* C16 as stated: in Example 2 exactly one paragraph holds both blocks, it
\* is complete and the word is rejoined in it, without hyphen or line break.
C16_HyphenRejoined ==
    (ex_pc = "done" /\ Example2) =>
        /\ Cardinality(Holding(ContText)) = 1
        /\ Holding(Word(15) \o ContText) = Holding(ContText)

\* C16: in Example 2 exactly one paragraph holds both blocks; it is
\* complete and holds them joined by a line break, the hyphen kept; the
\* word is rejoined when clean_raw_text takes hyphen and line break away.
C16_JoinedByLineBreak ==
    (ex_pc = "done" /\ Example2) =>
        /\ Cardinality(Holding(ContText)) = 1
        /\ Holding(Hyph.lines[1] \o <<"nl">> \o ContText) = Holding(ContText)
        /\ \A k \in Holding(ContText) :
               /\ sentence_endings_search(pdf_paragraphs[k])
               /\ clean_raw_text(pdf_paragraphs[k]) = Word(15) \o ContText

C16_Witness ==
    /\ ex_pc = "done"
    /\ Example2
    /\ pdf_paragraphs =
           <<Body.lines[1], Hyph.lines[1] \o <<"nl">> \o ContText>>

\* C17: a block that comes right after a kept block ending with a hyphen,
\* starts left of x = 90 and holds no figure token is among the blocks
\* given to the reassembly.
C17_ContinuationKept ==
    (ex_pc = "blocks" /\ blk_k = 1) =>
        \A k \in 2..Len(ThisPage.blocks) :
            LET before == ThisPage.blocks[k - 1]
                b == ThisPage.blocks[k]
            IN  (/\ before.type = 0
                 /\ b.type = 0
                 /\ \E j \in 1..Len(prelim_blocks) :
                        prelim_blocks[j] = [bbox |-> before.bbox,
                                            text |-> total_text(before)]
                 /\ EndsWithHyphen(total_text(before))
                 /\ b.bbox[1] < 90
                 /\ ~Contains(str_lower(total_text(b)), Ris))
                => \E j \in 1..Len(filtered_blocks) :
                       filtered_blocks[j] = [bbox |-> b.bbox,
                                             text |-> total_text(b)]

\* the first line of t begins with '-' or with the bullet
BeginsWithBullet(t) ==
    LET line == str_lstrip(BeforeFirstNl(t))
    IN  line # << >> /\ line[1] \in {"-", "bullet"}

\* the step takes a bullet block and makes it a paragraph of its own: after
\* the pending paragraph when that one is complete, and with the pending
\* paragraph left pending when it is not
BulletOwnParagraph ==
    LET n == Len(page_paragraphs')
    IN  /\ n > Len(page_paragraphs)
        /\ page_paragraphs'[n] = blk_text
        /\ IF temp_para # << >> /\ sentence_endings_search(temp_para)
           THEN /\ n = Len(page_paragraphs) + 2
                /\ page_paragraphs'[n - 1] = temp_para
                /\ temp_para' = << >>
           ELSE /\ n = Len(page_paragraphs) + 1
                /\ temp_para' = temp_para

\* C24 as stated: every block whose first line begins with a bullet marker
\* becomes a paragraph of its own.
C24_BulletAlwaysOwnParagraph ==
    [][(AtBlock /\ BeginsWithBullet(blk_text)) => BulletOwnParagraph]_vars

\* C24: a block whose first line begins with a bullet marker becomes a
\* paragraph of its own unless it is taken as the continuation of a block
\* that ended with a hyphen (it is not centered); a complete pending
\* paragraph is emitted before it, an incomplete one stays pending and is
\* emitted after it.
C24_BulletOwnParagraph ==
    [][(AtBlock /\ ~Continues /\ BeginsWithBullet(blk_text))
           => BulletOwnParagraph]_vars

\* the unfinished paragraph that stood before the bullet block was
\* returned after it
C24_Witness ==
    /\ ex_pc = "done"
    /\ Len(pdf_pages) = 1
    /\ total_text(pdf_pages[1].blocks[1]) = Open.lines[1]
    /\ pdf_paragraphs = <<Bullet.lines[1], Open.lines[1]>>

MaxWidth == 12

\* 0 <= x0 <= x1 <= page_width
WithinPage(bbox, page_width) ==
    0 <= bbox[1] /\ bbox[1] <= bbox[3] /\ bbox[3] <= page_width

\* C29: a block whose bounding box lies within the page width is centered,
\* so the reassembly never takes it as the continuation of a hyphen.
C29_WithinPageIsCentered ==
    /\ \A page_width \in 1..MaxWidth :
           \A x0 \in 0..page_width : \A x1 \in x0..page_width :
               is_centered(<<x0, 0, x1, 0>>, page_width)
    /\ (AtBlock /\ WithinPage(filtered_blocks[blk_k].bbox, ThisPage.width))
           => is_centered(filtered_blocks[blk_k].bbox, ThisPage.width)
                  /\ ~Continues

\* a block within the page is taken right after a block that ended with a
\* hyphen
C29_Witness ==
    /\ AtBlock
    /\ prev_ended_with_hyphen
    /\ blk_text # << >>
    /\ WithinPage(filtered_blocks[blk_k].bbox, ThisPage.width)
-----------------------------------------------------------------------------
(* find_section_range on its own, on pages that also hold headings with a  *)
(* section number and no bold font.                                        *)

\* "1 Введение" in a regular font
NumberedIntro == Span("vvedenie", FALSE, TRUE)

\* "2 Методы" in a regular font: a section number, then words, none of
\* them a keyword
NumberedOther == Span("none", FALSE, TRUE)

\* "введение" in a regular font, in a sentence
PlainIntro == Span("vvedenie", FALSE, FALSE)

ScanPageKinds ==
    {{PlainText}, {BoldIntro}, {BoldReview}, {BoldOther}, {NumberedIntro},
     {NumberedOther}, {PlainIntro}, {PlainText, BoldOther}}

MaxScanPages == 3

ScanDocs ==
    UNION {{[pages |-> ps] : ps \in [1..n -> ScanPageKinds]} :
               n \in 0..MaxScanPages}

InitScan ==
    /\ scan_doc \in ScanDocs
    /\ scan_title \in {"vvedenie", "obzor"}
    /\ scan_range = << >>
    /\ scan_pc = "called"
    /\ entries = << >>
    /\ intro_range = NotCalled
    /\ review_range = NotCalled
    /\ NoParse
    /\ NoSplit
    /\ NoNorm
    /\ NoSection
    /\ NoLists
    /\ NoBatch
    /\ NoNumbers
    /\ NoExtract
    /\ NoWrite
    /\ NoBlock
    /\ NoReal

\* find_section_range(doc, section_title, False)
FindSectionRange ==
    /\ scan_pc = "called"
    /\ scan_range' = find_section_range(scan_doc, scan_title)
    /\ scan_pc' = "done"
    /\ UNCHANGED notScan
    /\ UNCHANGED <<scan_doc, scan_title>>

NextScan == FindSectionRange

SpecScan == InitScan /\ [][NextScan]_vars

\* the page indices with a span that holds the keyword and is bold or has a
\* section number before the keyword
KeywordHeadingPages(d, section_title) ==
    {p \in 0..(Len(d.pages) - 1) :
        \E span \in d.pages[p + 1] :
            span.kw = section_title /\ (span.bold \/ span.numbered)}

\* the page indices after start with a bold span or a numbered heading
LaterHeadingPages(d, start) ==
    {q \in (start + 1)..(Len(d.pages) - 1) :
        \E span \in d.pages[q + 1] : span.bold \/ span.numbered}

\* C22: find_section_range raises the not-found error when no page has a
\* bold or numbered span with the keyword; otherwise the start is the
\* smallest such page index, the end is q - 1 for the smallest later page
\* index q with any bold span or numbered heading, open when there is no
\* such page, and start <= end when the end is resolved.
C22_ScanRange ==
    scan_pc = "done" =>
        LET starts == KeywordHeadingPages(scan_doc, scan_title)
        IN  IF starts = { }
            THEN scan_range = Raise("ValueError: heading not found")
            ELSE LET start == SetMin(starts)
                     later == LaterHeadingPages(scan_doc, start)
                 IN  /\ scan_range.status = "ok"
                     /\ scan_range.value.beg = start
                     /\ scan_range.value.end =
                            IF later = { } THEN None
                            ELSE Some(SetMin(later) - 1)
                     /\ scan_range.value.end # None =>
                            start <= Val(scan_range.value.end)

-----------------------------------------------------------------------------
(***************************************************************************)
(* The writers of the first stage: process_pdf with save_json              *)
(* (parser_web.py) and process_save (parser_hse.py).  A record is the      *)
(* sequence of its [key, val] pairs in the order json.dump writes them; a  *)
(* value is a string or a list of paragraphs.  Keys are written in Latin   *)
(* letters as before; "vvedenie" is the lowercased title of the            *)
(* Introduction, "obzor" the title of a Review found by its keywords,      *)
(* "Metody" a title get_review_range took from the TOC as it stands.       *)
(***************************************************************************)
StrVal(s) == [is_list |-> FALSE, str |-> s, list |-> << >>]
ListVal(l) == [is_list |-> TRUE, str |-> "", list |-> l]

\* one `key: value` of a dict display: a key that is there keeps its place
\* and takes the new value
DictPut(dct, k, v) ==
    IF \E i \in 1..Len(dct) : dct[i].key = k
    THEN [i \in 1..Len(dct) |->
             IF dct[i].key = k THEN [key |-> k, val |-> v] ELSE dct[i]]
    ELSE Append(dct, [key |-> k, val |-> v])

RECURSIVE DictOf(_)
\* {k1: v1, k2: v2, ...}
DictOf(items) ==
    IF items = << >> THEN << >>
    ELSE LET last == items[Len(items)]
         IN  DictPut(DictOf(SubSeq(items, 1, Len(items) - 1)),
                     last.key, last.val)

Item(k, v) == [key |-> k, val |-> v]

\* the four `key: value` before the sections
MetaItems(site) ==
    IF site = "web"
    THEN << Item("id", StrVal("id")),
            Item("zagolovok", StrVal("title[:-6]")),
            Item("god", StrVal("title[-6:]")),
            Item("tema", StrVal("topic")) >>
    ELSE << Item("zagolovok", StrVal("title")),
            Item("god", StrVal("year")),
            Item("tema", StrVal("topic")),
            Item("kod_temy", StrVal("code")) >>

\* the keys before the sections
MetaKeyOrder(site) == [i \in 1..4 |-> MetaItems(site)[i].key]

\* `if review_pages is not None`: an empty list is taken as a Review
ReviewRecoverable_NotNone(review_pages) == review_pages # None

\* `if review_pages`: neither None nor an empty list
ReviewRecoverable(review_pages) ==
    review_pages # None /\ Val(review_pages) # << >>

\* the dict both writers build, None when they return before
BuildRecord(site, data) ==
    IF data.intro = << >> THEN None
    ELSE IF ReviewRecoverable(data.review)
    THEN Some(DictOf(MetaItems(site)
                  \o << Item(data.titles[1], ListVal(data.intro)),
                        Item(data.titles[2], ListVal(Val(data.review))) >>))
    ELSE Some(DictOf(MetaItems(site)
                  \o << Item(data.titles[1], ListVal(data.intro)) >>))

\* what parse may return: titles, intro_paragraphs, and review_paragraphs,
\* which is None when no Review was found
TitlePairs ==
    {<<"vvedenie", "obzor">>, <<"vvedenie", "Metody">>,
     <<"vvedenie", "vvedenie">>, <<"vvedenie", "tema">>}

ParagraphLists == {<< >>, <<"p1">>, <<"p1", "p2">>}

ParseOutcomes ==
    {Raise("parse failed")}
        \cup {Ok([titles |-> t, intro |-> i, review |-> r]) :
                 t \in TitlePairs, i \in ParagraphLists,
                 r \in {None} \cup {Some(l) : l \in ParagraphLists}}

InitWrite ==
    /\ wr_site \in {"web", "hse"}
    /\ wr_exists \in BOOLEAN
    /\ wr_parse \in ParseOutcomes
    /\ wr_file = None
    /\ wr_pc = "called"
    /\ wr_site = "web" => ~wr_exists
    /\ entries = << >>
    /\ intro_range = NotCalled
    /\ review_range = NotCalled
    /\ NoParse
    /\ NoSplit
    /\ NoNorm
    /\ NoSection
    /\ NoLists
    /\ NoBatch
    /\ NoNumbers
    /\ NoExtract
    /\ NoScan
    /\ NoBlock
    /\ NoReal

\* process_pdf: parse in try/except, then save_json(data, ...); data is a
\* tuple of three, so `if not data` is never taken
ProcessPdf ==
    /\ wr_pc = "called"
    /\ wr_site = "web"
    /\ wr_file' = IF wr_parse.status = "error" THEN None
                  ELSE BuildRecord("web", wr_parse.value)
    /\ wr_pc' = "done"
    /\ UNCHANGED notWrite
    /\ UNCHANGED <<wr_site, wr_exists, wr_parse>>

\* process_save: nothing is done when the file exists or parse raises
ProcessSave ==
    /\ wr_pc = "called"
    /\ wr_site = "hse"
    /\ wr_file' = IF wr_exists \/ wr_parse.status = "error" THEN None
                  ELSE BuildRecord("hse", wr_parse.value)
    /\ wr_pc' = "done"
    /\ UNCHANGED notWrite
    /\ UNCHANGED <<wr_site, wr_exists, wr_parse>>

NextWrite == ProcessPdf \/ ProcessSave

SpecWrite == InitWrite /\ [][NextWrite]_vars

Keys(rec) == [i \in 1..Len(rec) |-> rec[i].key]

InSeq(x, seq) == \E i \in 1..Len(seq) : seq[i] = x

\* the keys of a record that are not metadata keys
SectionKeys(site, rec) ==
    {rec[i].key : i \in 1..Len(rec)} \ {MetaKeyOrder(site)[i] : i \in 1..4}

-----------------------------------------------------------------------------
(***************************************************************************)
(* processing_block, on a TOC page of one block.  The text of the block is *)
(* a sequence of tokens: the words "Glava" (letters, more than two         *)
(* characters), "Oglavlenie" (the heading word of the TOC), "a" (one       *)
(* letter), "5" and "17" (digits), a line break "NL" and a dot leader      *)
(* "DOTS" (three dots or more).  Words that follow one another are         *)
(* separated by one space.  A line is the sequence of its words.           *)
(***************************************************************************)
Words == {"Glava", "Oglavlenie", "a", "5", "17"}
Tokens == Words \cup {"NL", "DOTS"}

MaxTokens == 4

BlockTexts == UNION {[1..n -> Tokens] : n \in 0..MaxTokens}

\* re.search(r'[А-Яа-яA-Za-z]', text) and re.search(r'\d', text)
HasLetter(t) == \E k \in 1..Len(t) : t[k] \in {"Glava", "Oglavlenie", "a"}
HasDigit(t) == \E k \in 1..Len(t) : t[k] \in {"5", "17"}

\* '...' in text
old_case(t) == \E k \in 1..Len(t) : t[k] = "DOTS"

\* re.sub(r'\.{2,}', '\n', text)
DotsToNewlines(t) == [k \in 1..Len(t) |-> IF t[k] = "DOTS" THEN "NL" ELSE t[k]]

RECURSIVE SplitLines(_, _)
\* [ln.strip() for ln in text.splitlines() if ln.strip()], cur being the
\* line read so far
SplitLines(t, cur) ==
    IF t = << >> THEN (IF cur = << >> THEN << >> ELSE <<cur>>)
    ELSE IF t[1] = "NL"
         THEN (IF cur = << >> THEN << >> ELSE <<cur>>)
                  \o SplitLines(Tail(t), << >>)
         ELSE SplitLines(Tail(t), Append(cur, t[1]))

WordLen(w) ==
    IF w = "Glava" THEN 5
    ELSE IF w = "Oglavlenie" THEN 10
    ELSE IF w = "17" THEN 2
    ELSE 1

RECURSIVE LineLen(_)
\* len(line)
LineLen(line) ==
    IF line = << >> THEN 0
    ELSE IF Len(line) = 1 THEN WordLen(line[1])
    ELSE WordLen(line[1]) + 1 + LineLen(Tail(line))

\* re.search(r'\b(Оглавление|Содержание)\b', title, re.IGNORECASE)
HasTocHeading(line) == \E k \in 1..Len(line) : line[k] = "Oglavlenie"

\* re.match(r'^\s*(\d+)\s*$', line)
IsPageNumber(line) == Len(line) = 1 /\ line[1] \in {"5", "17"}

\* int(m.group(1))
PageOf(line) == IF line[1] = "5" THEN 5 ELSE 17

\* the positions i >= 0 with a page number at lines[begin + i]
NumberOffsets(lines, begin) ==
    {i \in 0..(Len(lines) - begin - 1) : IsPageNumber(lines[begin + i + 1])}

RECURSIVE ParseLines(_, _, _, _, _)
\* `while begin < num_lines`; begin counts from 0 as in the source
ParseLines(lines, title, begin, tail, found) ==
    IF begin >= Len(lines) THEN found
    ELSE IF NumberOffsets(lines, begin) = { }
         THEN ParseLines(lines, title, begin + tail + 2, tail, found)
         ELSE LET i == SetMin(NumberOffsets(lines, begin))
                  next == IF begin + i + 1 < Len(lines) THEN begin + i + 1
                          ELSE 0
              IN  ParseLines(lines, lines[next + 1], begin + i + 2, i,
                             Append(found,
                                    [title |-> title,
                                     page |-> PageOf(lines[begin + i + 1])]))

\* title and begin before the while loop; lines[1] of a single line is an
\* IndexError
FirstTitle(lines) ==
    LET heading == HasTocHeading(lines[1])
    IN  IF heading /\ Len(lines) < 2
        THEN Raise("IndexError: list index out of range")
        ELSE LET title == IF heading THEN lines[2] ELSE lines[1]
             IN  IF LineLen(title) <= 2
                 THEN IF Len(lines) < 2
                      THEN Raise("IndexError: list index out of range")
                      ELSE Ok([title |-> lines[2], begin |-> 2])
                 ELSE Ok([title |-> title, begin |-> IF heading THEN 2 ELSE 1])

\* the lines of the block, as the loop body computes them
LinesOf(t) ==
    SplitLines(IF old_case(t) THEN DotsToNewlines(t) ELSE t, << >>)

\* one turn of `for b in blocks`, entries being empty before
processing_block(t) ==
    IF ~HasLetter(t) \/ ~HasDigit(t) THEN Ok(<< >>)
    ELSE LET lines == LinesOf(t)
         IN  IF Len(lines) < 2 /\ ~old_case(t) THEN Ok(<< >>)
             ELSE LET first == FirstTitle(lines)
                  IN  IF first.status = "error" THEN first
                      ELSE Ok(ParseLines(lines, first.value.title,
                                         first.value.begin, 0, << >>))

InitBlock ==
    /\ toc_text \in BlockTexts
    /\ toc_result = << >>
    /\ toc_pc = "called"
    /\ entries = << >>
    /\ intro_range = NotCalled
    /\ review_range = NotCalled
    /\ NoParse
    /\ NoSplit
    /\ NoNorm
    /\ NoSection
    /\ NoLists
    /\ NoBatch
    /\ NoNumbers
    /\ NoExtract
    /\ NoScan
    /\ NoWrite
    /\ NoReal

\* entries = processing_block(blocks)
ProcessingBlock ==
    /\ toc_pc = "called"
    /\ toc_result' = processing_block(toc_text)
    /\ toc_pc' = "done"
    /\ UNCHANGED notBlock
    /\ UNCHANGED toc_text

NextBlock == ProcessingBlock

SpecBlock == InitBlock /\ [][NextBlock]_vars

\* the title the first entry of a block is to have: the first line, or the
\* second when the first holds the heading word or has at most 2 characters
ExpectedTitleLine(lines) ==
    IF HasTocHeading(lines[1]) \/ LineLen(lines[1]) <= 2 THEN 2 ELSE 1

\* C23: processing_block returns without error for every block; it gives
\* entries only for a block with a letter and a digit; the title of the
\* first entry is the first line, or the next line when the first holds the
\* heading word of the TOC or has at most 2 characters; its page is the
\* first later line that is only digits, and the line after that one is the
\* title of the next entry.
C23_TocBlockParsed ==
    toc_pc = "done" =>
        /\ toc_result.status = "ok"
        /\ toc_result.value # << >> =>
               LET lines == LinesOf(toc_text)
                   at == ExpectedTitleLine(lines)
                   numbers == {k \in (at + 1)..Len(lines) :
                                   IsPageNumber(lines[k])}
               IN  /\ HasLetter(toc_text) /\ HasDigit(toc_text)
                   /\ toc_result.value[1].title = lines[at]
                   /\ numbers # { }
                   /\ toc_result.value[1].page = PageOf(lines[SetMin(numbers)])
                   /\ Len(toc_result.value) >= 2 =>
                          toc_result.value[2].title = lines[SetMin(numbers) + 1]
-----------------------------------------------------------------------------
(***************************************************************************)
(* get_real_page, on a page of height 100 with one block of one line.  A   *)
(* line is the sequence of its characters: the digits "1" and "2", a space *)
(* and the letter "a".                                                     *)
(***************************************************************************)
LineChars == {"1", "2", " ", "a"}

MaxLineLen == 3

PageLines == UNION {[1..n -> LineChars] : n \in 0..MaxLineLen}

\* the height of the page, and blocks at its top, middle and bottom
PageHeight == 100
BlockPositions ==
    {[y0 |-> 5, y1 |-> 8], [y0 |-> 40, y1 |-> 50], [y0 |-> 92, y1 |-> 95]}

RECURSIVE LStripSpaces(_)
LStripSpaces(ln) ==
    IF ln # << >> /\ ln[1] = " " THEN LStripSpaces(Tail(ln)) ELSE ln

RECURSIVE RStripSpaces(_)
RStripSpaces(ln) ==
    IF ln # << >> /\ ln[Len(ln)] = " "
    THEN RStripSpaces(SubSeq(ln, 1, Len(ln) - 1))
    ELSE ln

\* ln.strip()
StripSpaces(ln) == RStripSpaces(LStripSpaces(ln))

IsDigitChar(c) == c \in {"1", "2"}
DigitValue(c) == IF c = "1" THEN 1 ELSE 2

\* re.fullmatch(r"\d|.\d", s): one digit, or any character and a digit
PageNumberPattern(s) ==
    \/ Len(s) = 1 /\ IsDigitChar(s[1])
    \/ Len(s) = 2 /\ IsDigitChar(s[2])

RECURSIVE IntOf(_)
\* int(s) of a text of digits only
IntOf(s) ==
    IF s = << >> THEN 0
    ELSE 10 * IntOf(SubSeq(s, 1, Len(s) - 1)) + DigitValue(s[Len(s)])

AllDigits(s) == \A k \in 1..Len(s) : IsDigitChar(s[k])

\* what the loop body does with the line ln: it appends a number, passes
\* the line by, or int() raises
line_number(ln) ==
    IF ~PageNumberPattern(StripSpaces(ln)) THEN Ok(None)
    ELSE IF Len(ln) = 2
         THEN IF IsDigitChar(ln[2]) THEN Ok(Some(DigitValue(ln[2])))
              ELSE Ok(None)
         ELSE IF AllDigits(StripSpaces(ln))
              THEN Ok(Some(IntOf(StripSpaces(ln))))
              ELSE Raise("ValueError: invalid literal for int()")

\* pn["y0"] < 0.1 * ph or pn["y1"] > 0.9 * ph
InMargin(b, ph) == 10 * b.y0 < ph \/ 10 * b.y1 > 9 * ph

\* page_num_loc: the values "num" of the candidates returned
page_num_loc(b, ph) ==
    LET n == line_number(b.ln)
    IN  IF n.status = "error" THEN n
        ELSE IF n.value # None /\ InMargin(b, ph) THEN Ok(<<Val(n.value)>>)
        ELSE Ok(<< >>)

InitReal ==
    /\ rp_block \in {[y0 |-> p.y0, y1 |-> p.y1, ln |-> ln] :
                        p \in BlockPositions, ln \in PageLines}
    /\ rp_result = << >>
    /\ rp_pc = "called"
    /\ entries = << >>
    /\ intro_range = NotCalled
    /\ review_range = NotCalled
    /\ NoParse
    /\ NoSplit
    /\ NoNorm
    /\ NoSection
    /\ NoLists
    /\ NoBatch
    /\ NoNumbers
    /\ NoExtract
    /\ NoScan
    /\ NoWrite
    /\ NoBlock

\* get_real_page(doc, toc_idx)
GetRealPage ==
    /\ rp_pc = "called"
    /\ rp_result' = page_num_loc(rp_block, PageHeight)
    /\ rp_pc' = "done"
    /\ UNCHANGED notReal
    /\ UNCHANGED rp_block

NextReal == GetRealPage

SpecReal == InitReal /\ [][NextReal]_vars

\* a line whose stripped text is an integer of one or more digits
StandaloneNumber(ln) ==
    StripSpaces(ln) # << >> /\ AllDigits(StripSpaces(ln))

\* C25: get_real_page returns exactly the standalone numeric lines of the
\* blocks that begin in the top tenth or end in the bottom tenth of the
\* page, each with the integer written on the line as its value.
C25_StandaloneNumbersReturned ==
    rp_pc = "done" =>
        /\ rp_result.status = "ok"
        /\ rp_result.value =
               IF /\ StandaloneNumber(rp_block.ln)
                  /\ (rp_block.y0 < 10 \/ rp_block.y1 > 90)
               THEN << IntOf(StripSpaces(rp_block.ln)) >>
               ELSE << >>
=============================================================================
